---- MODULE Spec2Model ----
(***************************************************************************)
(* Semantiva payload-algebra core: parameter resolution                    *)
(* (semantiva/eir/execution_payload_algebra.py), derived-edge computation  *)
(* (semantiva/pipeline/cpsv1/derived_edges.py), the channel-store          *)
(* execution loop with producer tracking, and compilation identity         *)
(* (semantiva/eir/compiler.py, semantiva/pipeline/graph_builder.py,        *)
(* semantiva/pipeline/cpsv1/canonicalize.py), canonical JSON bytes         *)
(* (semantiva/pipeline/cpsv1/stable_json.py), processor name resolution    *)
(* (semantiva/registry), and the trace records of an orchestrator run      *)
(* (semantiva/execution/orchestrator/orchestrator.py).                     *)
(***************************************************************************)
EXTENDS Integers, Sequences, FiniteSets, TLC

VARIABLES
    rcall,      \* resolver: the arguments of one resolve_param_value call
    rres,       \* resolver: its outcome ("pending" before the call)
    cpsv1,      \* derive_edges_v1: the `nodes` list of its argument
    didx,       \* derive_edges_v1: number of nodes whose loop body has run
    channel_producer,   \* derive_edges_v1: channel -> <<uuid, slot, idx>>
    edges,      \* derive_edges_v1: the edges derived so far
    prev_node_uuid,     \* derive_edges_v1: uuid of the previous node (0: None)
    dout,       \* derive_edges_v1: running / returned / the raised error
    authored,   \* compile_eir_v1: the authoring spec (<<>>: the IR was given)
    compilations,       \* compile_eir_v1: one record per call made so far
    eir,        \* execute_eir_payload_algebra: the IR document
    run_channels,   \* execute_eir_payload_algebra: the channel store
    run_context,    \* execute_eir_payload_algebra: the current context
    context_producer_store,     \* context key -> last-writer producer
    provenance, \* execute_eir_payload_algebra: one record per completed node
    xidx,       \* execute_eir_payload_algebra: number of completed nodes
    in_channels,        \* the channel store as the last loop iteration found it
    xout,       \* execute_eir_payload_algebra: running / returned / the error
    canon_calls,    \* build_canonical_spec: one record per document canonicalized
    processors,     \* ProcessorRegistry._processors: name -> class
    name_candidates,    \* ProcessorRegistry._name_candidates: name -> set of FQCNs
    defaults_loaded,    \* ProcessorRegistry._defaults_loaded
    registered,     \* the (name, class) pairs passed to register_processor so far
    resolved,       \* resolve_symbol: the last call and its outcome
    trace_records,  \* SemantivaOrchestrator.execute: what the trace driver received
    tplan,          \* SemantivaOrchestrator.execute: the run's arguments
    tpc,            \* SemantivaOrchestrator.execute: position in the method body
    tidx,           \* SemantivaOrchestrator.execute: the loop index
    tresult         \* SemantivaOrchestrator.execute: running / returned / raised

resolverVars == <<rcall, rres>>

deriveVars == <<cpsv1, didx, channel_producer, edges, prev_node_uuid, dout>>

execVars == <<authored, compilations, eir, run_channels, run_context, context_producer_store, provenance,
              xidx, in_channels, xout>>

canonVars == <<canon_calls>>

registryVars == <<processors, name_candidates, defaults_loaded, registered, resolved>>

traceVars == <<trace_records, tplan, tpc, tidx, tresult>>

auxVars == <<canonVars, registryVars, traceVars>>

vars == <<rcall, rres, cpsv1, didx, channel_producer, edges, prev_node_uuid, dout,
          authored, compilations, eir, run_channels, run_context,
          context_producer_store, provenance, xidx, in_channels, xout,
          canon_calls, processors, name_candidates, defaults_loaded, registered,
          resolved, trace_records, tplan, tpc, tidx, tresult>>

(***************************************************************************)
(* Finite maps (python dicts) are functions over the set of present keys.  *)
(***************************************************************************)
EmptyMap == [k \in {} |-> "none"]

MapsFrom(keys, vals) == UNION {[ks -> vals] : ks \in SUBSET keys}

(***************************************************************************)
(* payload_algebra_contracts.py                                            *)
(***************************************************************************)
\* The raw source-reference strings of the SourceRef grammar used by the model.
RawRefs == {"channel:primary", "channel:addend", "context:other", "context:k",
            "primary", "addend"}

\* parse_source_ref: "channel:<name>" | "context:<key>" | "<unprefixed>".
parse_source_ref(raw) ==
    CASE raw = "channel:primary" -> [kind |-> "channel", key |-> "primary"]
      [] raw = "channel:addend"  -> [kind |-> "channel", key |-> "addend"]
      [] raw = "context:other"   -> [kind |-> "context", key |-> "other"]
      [] raw = "context:k"       -> [kind |-> "context", key |-> "k"]
      [] raw = "primary"         -> [kind |-> "channel", key |-> "primary"]
      [] raw = "addend"          -> [kind |-> "channel", key |-> "addend"]

\* A node_uuid of None.  Node uuids are tuples (see uuid5), so None is the
\* empty tuple.
NoUuid == <<>>

\* ProducerRef(kind, node_uuid=None, output_slot="out").
ProducerRef(kind, node_uuid) ==
    [kind |-> kind, node_uuid |-> node_uuid, output_slot |-> "out"]

PipelineInputData == ProducerRef("pipeline_input_data", NoUuid)

PipelineInputContext == ProducerRef("pipeline_input_context", NoUuid)

NodeProducer(node_uuid) == ProducerRef("node", node_uuid)

ChannelEntry(value, producer) == [value |-> value, producer |-> producer]

(***************************************************************************)
(* resolve_param_value                                                     *)
(***************************************************************************)
MISSING == "MISSING"

NoRef == [kind |-> "none"]

ResolvedParam(value, source, source_ref) ==
    [kind |-> "ok", value |-> value, source |-> source, source_ref |-> source_ref]

\* PayloadAlgebraResolutionError, by the message template that is raised.
ResolutionError(error, param_name, detail) ==
    [kind |-> "error", error |-> error, param |-> param_name, detail |-> detail]

\* Variant of NormalizedBinds: only the binds the node wrote are used; `data`
\* gets no default bind.
NormalizedBindsExplicitOnly(param_name, binds) == binds

\* Mutant of NormalizedBinds: the default bind is applied to any unbound
\* parameter, not only to `data`.
NormalizedBindsAnyParam(param_name, binds) ==
    IF param_name \notin DOMAIN binds
    THEN [p \in DOMAIN binds \cup {param_name} |->
             IF p \in DOMAIN binds THEN binds[p] ELSE "channel:primary"]
    ELSE binds

\* normalized_binds: `data` defaults to channel:primary unless explicitly bound.
NormalizedBinds(param_name, binds) ==
    IF param_name = "data" /\ param_name \notin DOMAIN binds
    THEN [p \in DOMAIN binds \cup {"data"} |->
             IF p \in DOMAIN binds THEN binds[p] ELSE "channel:primary"]
    ELSE binds

\* Mutant of Conflicts: a context key of the same name is not reported.
ConflictsNodeOnly(param_name, node_params, context) ==
    IF param_name \in DOMAIN node_params THEN <<"node parameters">> ELSE <<>>

\* conflicts: the list of locations that also define the bound parameter.
Conflicts(param_name, node_params, context) ==
    (IF param_name \in DOMAIN node_params THEN <<"node parameters">> ELSE <<>>)
    \o (IF param_name \in DOMAIN context THEN <<"context">> ELSE <<>>)

\* Variant of EffectiveProducer: every context key is attributed to the
\* pipeline input, whatever the per-key map says.
EffectiveProducerInputOnly(key, context_producers) == PipelineInputContext

\* effective_producer: per-key producer when a non-empty map is given, else
\* the single (defaulted) context producer.
EffectiveProducer(key, context_producers) ==
    IF context_producers # EmptyMap /\ key \in DOMAIN context_producers
    THEN context_producers[key]
    ELSE PipelineInputContext

ContextSourceRef(key, context_producers) ==
    [kind |-> "context", key |-> key,
     producer |-> EffectiveProducer(key, context_producers)]

DataSourceRef(channel, producer) ==
    [kind |-> "data", channel |-> channel, producer |-> producer]

ResolveBound(param_name, ref_raw, context, channels, context_producers) ==
    LET bind_ref == parse_source_ref(ref_raw)
    IN  IF bind_ref.kind = "channel"
        THEN IF bind_ref.key \notin DOMAIN channels
             THEN ResolutionError("channel_not_available", param_name, <<bind_ref.key>>)
             ELSE ResolvedParam(channels[bind_ref.key].value, "data",
                      DataSourceRef(bind_ref.key, channels[bind_ref.key].producer))
        ELSE IF bind_ref.key \notin DOMAIN context
             THEN ResolutionError("context_key_not_available", param_name, <<bind_ref.key>>)
             ELSE ResolvedParam(context[bind_ref.key], "context",
                      ContextSourceRef(bind_ref.key, context_producers))

\* Mutant of ResolveUnbound: the context key is consulted before the literal
\* node parameter.
ResolveUnboundContextFirst(param_name, node_params, context, default, context_producers) ==
    IF param_name \in DOMAIN context
    THEN ResolvedParam(context[param_name], "context",
             ContextSourceRef(param_name, context_producers))
    ELSE IF param_name \in DOMAIN node_params
    THEN ResolvedParam(node_params[param_name], "node", NoRef)
    ELSE IF default # MISSING
    THEN ResolvedParam(default, "default", NoRef)
    ELSE ResolutionError("unable_to_resolve", param_name, <<>>)

ResolveUnbound(param_name, node_params, context, default, context_producers) ==
    IF param_name \in DOMAIN node_params
    THEN ResolvedParam(node_params[param_name], "node", NoRef)
    ELSE IF param_name \in DOMAIN context
    THEN ResolvedParam(context[param_name], "context",
             ContextSourceRef(param_name, context_producers))
    ELSE IF default # MISSING
    THEN ResolvedParam(default, "default", NoRef)
    ELSE ResolutionError("unable_to_resolve", param_name, <<>>)

resolve_param_value(param_name, binds, node_params, context, channels, default, context_producers) ==
    LET normalized_binds == NormalizedBinds(param_name, binds)
        conflicts == Conflicts(param_name, node_params, context)
    IN  IF param_name \in DOMAIN normalized_binds
        THEN IF conflicts # <<>>
             THEN ResolutionError("ambiguous", param_name, conflicts)
             ELSE ResolveBound(param_name, normalized_binds[param_name],
                               context, channels, context_producers)
        ELSE ResolveUnbound(param_name, node_params, context, default,
                            context_producers)

(***************************************************************************)
(* Resolver specification: one call of resolve_param_value on arguments    *)
(* drawn from bounded sets.                                                *)
(***************************************************************************)
ParamNames == {"data", "other"}

ContextKeys == {"data", "other", "k"}

ChannelNames == {"primary", "addend"}

\* The literal node-parameter value of p, the context value of key k and the
\* value held by channel c are distinct strings, so a result names its origin.
NodeParamValue(p) == IF p = "data" THEN "NODE_data" ELSE "NODE_other"

ContextValue(k) ==
    CASE k = "data" -> "CTX_data" [] k = "other" -> "CTX_other" [] k = "k" -> "CTX_k"

ChannelValue(c) == IF c = "primary" THEN "P" ELSE "A"

ChannelProducerOf(c) == IF c = "primary" THEN PipelineInputData ELSE NodeProducer(<<1>>)

ResolverCalls ==
    [param_name : ParamNames,
     binds : MapsFrom(ParamNames, RawRefs),
     node_params : {[p \in ps |-> NodeParamValue(p)] : ps \in SUBSET ParamNames},
     context : {[k \in ks |-> ContextValue(k)] : ks \in SUBSET ContextKeys},
     channels : {[c \in cs |-> ChannelEntry(ChannelValue(c), ChannelProducerOf(c))] :
                    cs \in SUBSET ChannelNames},
     default : {MISSING, "D"}]

ResolverIdle == rcall = [param_name |-> "none"] /\ rres = [kind |-> "idle"]

DeriveIdle ==
    /\ cpsv1 = <<>> /\ didx = 0 /\ channel_producer = EmptyMap
    /\ edges = <<>> /\ prev_node_uuid = NoUuid /\ dout = [kind |-> "idle"]

ExecIdle ==
    /\ authored = <<>> /\ compilations = <<>>
    /\ eir = [kind |-> "idle"] /\ run_channels = EmptyMap
    /\ run_context = EmptyMap /\ context_producer_store = EmptyMap
    /\ provenance = <<>> /\ xidx = 0 /\ in_channels = EmptyMap
    /\ xout = [kind |-> "idle"]

CanonIdle == canon_calls = <<>>

RegistryIdle ==
    /\ processors = EmptyMap
    /\ name_candidates = EmptyMap
    /\ defaults_loaded = FALSE
    /\ registered = {}
    /\ resolved = [kind |-> "idle"]

TraceIdle ==
    /\ trace_records = <<>>
    /\ tplan = [kind |-> "idle"]
    /\ tpc = "idle"
    /\ tidx = 0
    /\ tresult = [kind |-> "idle"]

AuxIdle == CanonIdle /\ RegistryIdle /\ TraceIdle

ResolveInit ==
    /\ AuxIdle
    /\ rcall \in ResolverCalls
    /\ rres = [kind |-> "pending"]
    /\ DeriveIdle
    /\ ExecIdle

ResolveCall ==
    /\ rres.kind = "pending"
    /\ rres' = resolve_param_value(rcall.param_name, rcall.binds, rcall.node_params,
                                   rcall.context, rcall.channels, rcall.default,
                                   EmptyMap)
    /\ UNCHANGED rcall
    /\ UNCHANGED <<deriveVars, execVars, auxVars>>

ResolveNext == ResolveCall

SpecResolve == ResolveInit /\ [][ResolveNext]_vars

(***************************************************************************)
(* derive_edges_v1 (semantiva/pipeline/cpsv1/derived_edges.py)             *)
(***************************************************************************)
\* sorted(channels.items()) and sorted(bind.keys()): the slot and parameter
\* names of the model in lexicographic order.
SortedSlots == <<"out", "side">>

SortedParams == <<"data", "other">>

Put(map, key, val) ==
    [k \in DOMAIN map \cup {key} |-> IF k = key THEN val ELSE map[k]]

NoError == [kind |-> "none"]

\* PipelineTopologyError raised while processing node `idx`, in the publish
\* loop (param "") or at bind entry `param`.
TopologyError(error, idx, param, channel) ==
    [kind |-> "error", error |-> error, idx |-> idx, param |-> param,
     channel |-> channel]

\* Mutant of the publish loop: a second writer silently replaces the first.
RECURSIVE PublishLoopLastWriterWins(_, _, _, _)
PublishLoopLastWriterWins(node, idx, k, acc) ==
    IF k > Len(SortedSlots)
    THEN acc
    ELSE LET out_slot == SortedSlots[k]
         IN  IF out_slot \notin DOMAIN node.publish
             THEN PublishLoopLastWriterWins(node, idx, k + 1, acc)
             ELSE IF node.publish[out_slot] = "primary"
             THEN PublishLoopLastWriterWins(node, idx, k + 1, acc)
             ELSE PublishLoopLastWriterWins(node, idx, k + 1,
                      [acc EXCEPT !.cp = Put(acc.cp, node.publish[out_slot],
                                             <<node.node_uuid, out_slot, idx>>)])

\* for out_slot, channel_name in sorted(channels.items()): primary is exempt;
\* a channel already in channel_producer has multiple writers.
RECURSIVE PublishLoop(_, _, _, _)
PublishLoop(node, idx, k, acc) ==
    IF k > Len(SortedSlots) \/ acc.err.kind # "none"
    THEN acc
    ELSE LET out_slot == SortedSlots[k]
         IN  IF out_slot \notin DOMAIN node.publish
             THEN PublishLoop(node, idx, k + 1, acc)
             ELSE LET channel_name == node.publish[out_slot]
                  IN  IF channel_name = "primary"
                      THEN PublishLoop(node, idx, k + 1, acc)
                      ELSE IF channel_name \in DOMAIN acc.cp
                      THEN [acc EXCEPT !.err =
                               TopologyError("multiple_writers", idx, "", channel_name)]
                      ELSE PublishLoop(node, idx, k + 1,
                               [acc EXCEPT !.cp = Put(acc.cp, channel_name,
                                                      <<node.node_uuid, out_slot, idx>>)])

IsContextRef(source_ref) == source_ref \in {"context:other", "context:k"}

IsChannelRef(source_ref) == source_ref \in {"channel:primary", "channel:addend"}

\* source_ref.split(":", 1)[1] for a "channel:" reference.
ChannelOf(source_ref) == parse_source_ref(source_ref).key

DerivedEdge(source_uuid, target_uuid, param, source_ref) ==
    [source_node_uuid |-> source_uuid, target_node_uuid |-> target_uuid,
     target_param |-> param, source_ref |-> source_ref]

DerivedEdgeWithSlot(source_uuid, target_uuid, param, source_ref, slot) ==
    [source_node_uuid |-> source_uuid, target_node_uuid |-> target_uuid,
     target_param |-> param, source_ref |-> source_ref,
     source_output_slot |-> slot]

\* Mutant of BindEntry: a bind to a channel without producer derives no edge
\* instead of raising.
BindEntrySkipMissing(node, idx, param, prev, acc) ==
    LET source_ref == node.bind[param]
    IN  IF IsContextRef(source_ref)
        THEN acc
        ELSE IF source_ref = "channel:primary"
        THEN IF prev = NoUuid
             THEN acc
             ELSE [acc EXCEPT !.edges =
                      Append(@, DerivedEdge(prev, node.node_uuid, param, source_ref))]
        ELSE IF ChannelOf(source_ref) \notin DOMAIN acc.cp
        THEN acc
        ELSE IF acc.cp[ChannelOf(source_ref)][3] >= idx
        THEN [acc EXCEPT !.err =
                 TopologyError("must_precede", idx, param, ChannelOf(source_ref))]
        ELSE [acc EXCEPT !.edges = Append(@,
                 DerivedEdge(acc.cp[ChannelOf(source_ref)][1], node.node_uuid,
                             param, source_ref))]

\* Variant of BindEntry: a bind to channel:primary is wired to the recorded
\* producer of a channel, like any other channel bind, and never to the
\* preceding node.
BindEntryNoChain(node, idx, param, prev, acc) ==
    LET source_ref == node.bind[param]
    IN  IF IsContextRef(source_ref)
        THEN acc
        ELSE IF ChannelOf(source_ref) \notin DOMAIN acc.cp
        THEN IF source_ref = "channel:primary"
             THEN acc
             ELSE [acc EXCEPT !.err =
                      TopologyError("missing_producer", idx, param, ChannelOf(source_ref))]
        ELSE IF acc.cp[ChannelOf(source_ref)][3] >= idx
        THEN [acc EXCEPT !.err =
                 TopologyError("must_precede", idx, param, ChannelOf(source_ref))]
        ELSE [acc EXCEPT !.edges = Append(@,
                 DerivedEdge(acc.cp[ChannelOf(source_ref)][1], node.node_uuid,
                             param, source_ref))]

\* Variant of BindEntry: the position of the producer is not compared with the
\* position of the consumer.
BindEntryAnyProducer(node, idx, param, prev, acc) ==
    LET source_ref == node.bind[param]
    IN  IF IsContextRef(source_ref)
        THEN acc
        ELSE IF source_ref = "channel:primary"
        THEN IF prev = NoUuid
             THEN acc
             ELSE [acc EXCEPT !.edges =
                      Append(@, DerivedEdge(prev, node.node_uuid, param, source_ref))]
        ELSE IF ChannelOf(source_ref) \notin DOMAIN acc.cp
        THEN [acc EXCEPT !.err =
                 TopologyError("missing_producer", idx, param, ChannelOf(source_ref))]
        ELSE [acc EXCEPT !.edges = Append(@,
                 DerivedEdge(acc.cp[ChannelOf(source_ref)][1], node.node_uuid,
                             param, source_ref))]

\* The body of `for param in sorted(bind.keys())` for one entry.
BindEntry(node, idx, param, prev, acc) ==
    LET source_ref == node.bind[param]
    IN  IF IsContextRef(source_ref)
        THEN acc
        ELSE IF source_ref = "channel:primary"
        THEN IF prev = NoUuid
             THEN acc
             ELSE [acc EXCEPT !.edges =
                      Append(@, DerivedEdge(prev, node.node_uuid, param, source_ref))]
        ELSE IF IsChannelRef(source_ref)
        THEN LET channel == ChannelOf(source_ref)
             IN  IF channel \notin DOMAIN acc.cp
                 THEN [acc EXCEPT !.err =
                          TopologyError("missing_producer", idx, param, channel)]
                 ELSE LET producer == acc.cp[channel]
                      IN  IF producer[3] >= idx
                          THEN [acc EXCEPT !.err =
                                   TopologyError("must_precede", idx, param, channel)]
                          ELSE [acc EXCEPT !.edges = Append(@,
                                   IF producer[2] # "out"
                                   THEN DerivedEdgeWithSlot(producer[1], node.node_uuid,
                                            param, source_ref, producer[2])
                                   ELSE DerivedEdge(producer[1], node.node_uuid,
                                            param, source_ref))]
        ELSE [acc EXCEPT !.err =
                 [kind |-> "error", error |-> "unsupported_source_ref", idx |-> idx,
                  param |-> param, channel |-> ""]]

RECURSIVE BindLoop(_, _, _, _, _)
BindLoop(node, idx, k, prev, acc) ==
    IF k > Len(SortedParams) \/ acc.err.kind # "none"
    THEN acc
    ELSE IF SortedParams[k] \notin DOMAIN node.bind
    THEN BindLoop(node, idx, k + 1, prev, acc)
    ELSE BindLoop(node, idx, k + 1, prev,
                  BindEntry(node, idx, SortedParams[k], prev, acc))

\* One iteration of `for idx, node in enumerate(nodes)`.
DeriveNode(node, idx, cp, es, prev) ==
    BindLoop(node, idx, 1, prev,
             PublishLoop(node, idx, 1, [cp |-> cp, edges |-> es, err |-> NoError]))

(***************************************************************************)
(* Derivation specification: derive_edges_v1 on a node list drawn from     *)
(* bounded sets, one loop iteration per step.                              *)
(***************************************************************************)
MaxNodes == 3

PublishMaps ==
    {pm \in MapsFrom({"out", "side"}, ChannelNames) : "out" \in DOMAIN pm}

DeriveBindMaps ==
    {bm \in MapsFrom(ParamNames, {"channel:primary", "channel:addend", "context:k"}) :
        "data" \in DOMAIN bm /\ bm["data"] # "context:k"}

CpsNodeLists ==
    UNION {{ns \in [1..n -> [bind : DeriveBindMaps, publish : PublishMaps]] : TRUE} :
              n \in 1..MaxNodes}

\* node_uuid values are distinct per declaration position.
WithUuids(ns) ==
    [i \in DOMAIN ns |->
        [node_uuid |-> <<i>>, bind |-> ns[i].bind, publish |-> ns[i].publish]]

DeriveInit ==
    /\ AuxIdle
    /\ \E ns \in CpsNodeLists : cpsv1 = WithUuids(ns)
    /\ didx = 0
    /\ channel_producer = EmptyMap
    /\ edges = <<>>
    /\ prev_node_uuid = NoUuid
    /\ dout = [kind |-> "running"]
    /\ ResolverIdle
    /\ ExecIdle

DeriveIterate ==
    /\ dout.kind = "running"
    /\ didx < Len(cpsv1)
    /\ LET node == cpsv1[didx + 1]
           r == DeriveNode(node, didx + 1, channel_producer, edges, prev_node_uuid)
       IN  /\ didx' = didx + 1
           /\ channel_producer' = r.cp
           /\ edges' = r.edges
           /\ IF r.err.kind = "none"
              THEN prev_node_uuid' = node.node_uuid /\ dout' = dout
              ELSE prev_node_uuid' = prev_node_uuid /\ dout' = r.err
    /\ UNCHANGED <<cpsv1, rcall, rres, execVars, auxVars>>

DeriveReturn ==
    /\ dout.kind = "running"
    /\ didx = Len(cpsv1)
    /\ dout' = [kind |-> "returned"]
    /\ UNCHANGED auxVars
    /\ UNCHANGED <<cpsv1, didx, channel_producer, edges, prev_node_uuid, rcall, rres,
                   execVars>>

DeriveNext == DeriveIterate \/ DeriveReturn

SpecDerive == DeriveInit /\ [][DeriveNext]_vars

(***************************************************************************)
(* InMemoryChannelStore, ContextProducerStore and PublishPlanV1            *)
(* (semantiva/eir/execution_payload_algebra.py)                            *)
(***************************************************************************)
\* carry_forward_from=None.
NoChannel == ""

\* InMemoryChannelStore.seed_primary.
seed_primary(store, value) ==
    Put(store, "primary", ChannelEntry(value, PipelineInputData))

\* InMemoryChannelStore.set: the existing producer is preserved, a new channel
\* is attributed to the pipeline input.
ChannelSet(store, name, value) ==
    Put(store, name,
        ChannelEntry(value, IF name \in DOMAIN store THEN store[name].producer
                            ELSE PipelineInputData))

\* Variant of set_entry: the store is rebuilt around the written entry.
set_entry_only_written(store, name, value, producer, carry_forward_from) ==
    [c \in {name} |-> ChannelEntry(value, producer)]

\* InMemoryChannelStore.set_entry; `existing.value is value or ==` is equality
\* of the modelled values.
set_entry(store, name, value, producer, carry_forward_from) ==
    IF /\ carry_forward_from # NoChannel
       /\ carry_forward_from \in DOMAIN store
       /\ store[carry_forward_from].value = value
    THEN Put(store, name, ChannelEntry(value, store[carry_forward_from].producer))
    ELSE Put(store, name, ChannelEntry(value, producer))

\* ContextProducerStore.__init__: every initial key belongs to the pipeline input.
ContextProducerStore(initial_keys) == [k \in initial_keys |-> PipelineInputContext]

\* Variant of mark_written: a key that already has a producer keeps it.
mark_written_first_writer(store, keys, node_uuid) ==
    [k \in DOMAIN store \cup keys |->
        IF k \in DOMAIN store THEN store[k] ELSE NodeProducer(node_uuid)]

\* ContextProducerStore.get_producer.
get_producer(store, key) ==
    IF key \in DOMAIN store THEN store[key] ELSE PipelineInputContext

\* ContextProducerStore.mark_written (last-writer update).
mark_written(store, keys, node_uuid) ==
    [k \in DOMAIN store \cup keys |->
        IF k \in keys THEN NodeProducer(node_uuid) ELSE store[k]]

\* PublishPlanV1.from_cpsv1: publish.channels.out, defaulting to primary.  The
\* `publish` field of a node spec is its publish.channels map; an absent
\* `publish` key and an empty map are both the empty map.
from_cpsv1(node_spec) ==
    LET publish == IF "publish" \in DOMAIN node_spec THEN node_spec.publish ELSE EmptyMap
    IN  IF "out" \in DOMAIN publish THEN publish["out"] ELSE "primary"

\* Variant of PublishApply: the output value is also written to primary.
PublishApplyAlsoPrimary(out_channel, output_value, store) ==
    ChannelSet(ChannelSet(store, "primary", output_value), out_channel, output_value)

\* PublishPlanV1.apply.
PublishApply(out_channel, output_value, store) ==
    ChannelSet(store, out_channel, output_value)

\* Variant of PublishOutput: only publish_plan.apply runs, so the entry keeps
\* the producer it had (the pipeline input for a new channel).
PublishOutputApplyOnly(store, is_passthrough, out_channel, input_channel, value, node_uuid) ==
    PublishApply(out_channel, value, store)

\* Variant of PublishOutput: the executing node is recorded as the producer of
\* whatever it publishes, pass-through or not.
PublishOutputNodeAlways(store, is_passthrough, out_channel, input_channel, value, node_uuid) ==
    set_entry(PublishApply(out_channel, value, store), out_channel, value,
              NodeProducer(node_uuid), NoChannel)

\* The publication block of the loop body: publish_plan.apply, then set_entry
\* with the carry-forward arguments of a pass-through node or the node's own
\* producer reference.
PublishOutput(store, is_passthrough, out_channel, input_channel, value, node_uuid) ==
    LET applied == PublishApply(out_channel, value, store)
    IN  IF is_passthrough /\ out_channel = input_channel
        THEN IF input_channel \in DOMAIN applied
             THEN set_entry(applied, out_channel, value,
                            applied[input_channel].producer, input_channel)
             ELSE set_entry(applied, out_channel, value,
                            PipelineInputData, input_channel)
        ELSE set_entry(applied, out_channel, value,
                       NodeProducer(node_uuid), NoChannel)

(***************************************************************************)
(* Processors, authoring specs and the compiled IR                         *)
(***************************************************************************)
\* Processor classes by the properties the executor looks at: a value source,
\* a two-input operation with the processing parameter `other`, the same
\* operation with a default declared for `other`, and a data probe.
ProcessorRefs == {"Source", "Add", "AddWithDefault", "Probe"}

\* _is_passthrough_node: ContextProcessor by name, DataProbe / DataSink by MRO.
is_passthrough_node(processor_ref) == processor_ref = "Probe"

\* processor.get_processing_parameter_names().
get_processing_parameter_names(processor_ref) ==
    IF processor_ref \in {"Add", "AddWithDefault"} THEN <<"other">> ELSE <<>>

\* The default a processor declares for a processing parameter in the
\* signature of its processing method; MISSING when it declares none.
declared_default(processor_ref, name) ==
    IF processor_ref = "AddWithDefault" /\ name = "other" THEN "d1" ELSE MISSING

\* dict.get(key, default).
Get(map, key, default) == IF key \in DOMAIN map THEN map[key] ELSE default

\* Python None as a serialized field value.
None == "None"

\* uuid.uuid5(_NODE_NAMESPACE, name).  The hash is taken to be free of
\* collisions: the uuid of a name is the one-tuple of that name.  A name is
\* the key-sorted compact JSON text of a mapping (json.dumps with sort_keys,
\* stable_json_dumps_v1), which determines and is determined by the mapping,
\* whatever the order its keys were written in; it is represented by the
\* mapping.
uuid5(name) == <<name>>

\* An authoring node declaration is a mapping over the keys its author wrote:
\* `processor` and `parameters`, and optionally `bind`, `publish` (its
\* `channels` map, slot -> channel) and `data_key`.

\* Variant of canonical_node: the declaration position is left out of the
\* canonical fields.
canonical_node_unpositioned(defn, declaration_index) ==
    [role |-> "processor", processor_ref |-> defn.processor,
     params |-> Get(defn, "parameters", EmptyMap), ports |-> EmptyMap, derive |-> None,
     declaration_index |-> 0, declaration_subindex |-> 0]

\* graph_builder._canonical_node: role, processor_ref, params, ports, derive
\* and the declaration indices.  It has no `bind` and no `publish` key.
\* Positions are counted from 1.
canonical_node(defn, declaration_index) ==
    [role |-> "processor", processor_ref |-> defn.processor,
     params |-> Get(defn, "parameters", EmptyMap), ports |-> EmptyMap, derive |-> None,
     declaration_index |-> declaration_index, declaration_subindex |-> 0]

\* graph_builder.build_canonical_spec: each node is its canonical mapping plus
\* node_uuid, the uuid5 of that mapping; the edges chain the nodes.
build_canonical_spec(spec) ==
    LET canon(i) == canonical_node(spec[i], i)
        nodes == [i \in DOMAIN spec |-> Put(canon(i), "node_uuid", uuid5(canon(i)))]
    IN  [version |-> 1, nodes |-> nodes,
         edges |-> [i \in 1..(Len(spec) - 1) |->
                       [source |-> nodes[i].node_uuid, target |-> nodes[i + 1].node_uuid]]]

\* graph_builder.compute_pipeline_id: "plid-" + sha256 of the serialized graph,
\* the hash taken to be free of collisions.
compute_pipeline_id(canonical_spec) == [plid |-> canonical_spec]

\* Variant of normalize_source_ref: the reference is kept as written.
normalize_source_ref_as_written(source) == source

\* canonicalize._normalize_source_ref: a reference with a channel: or context:
\* prefix is kept, an unprefixed name is a channel name.
normalize_source_ref(source) ==
    CASE source = "primary" -> "channel:primary"
      [] source = "addend" -> "channel:addend"
      [] OTHER -> source

\* canonicalize._normalize_bind: every source is normalized, and `data` is
\* materialized as channel:primary when it is not bound.
normalize_bind(bind) ==
    LET normalized == [p \in DOMAIN bind |-> normalize_source_ref(bind[p])]
    IN  IF "data" \in DOMAIN normalized
        THEN normalized
        ELSE Put(normalized, "data", "channel:primary")

\* canonicalize._normalize_publish: the channels map, where data_key replaces
\* slot `out`, and slot `out` is materialized as primary when it is not named.
normalize_publish(node) ==
    LET channels_in == Get(node, "publish", EmptyMap)
        channels == IF "data_key" \in DOMAIN node
                    THEN Put(channels_in, "out", node.data_key)
                    ELSE channels_in
    IN  IF "out" \in DOMAIN channels THEN channels ELSE Put(channels, "out", "primary")

\* canonicalize._canonicalize_node: the basis holds the normalized bind and
\* publish and the declaration indices; node_uuid is the uuid5 of the basis.
canonicalize_node(node, declaration_index) ==
    LET basis == [role |-> "processor", processor_ref |-> node.processor,
                  parameters |-> Get(node, "parameters", EmptyMap), ports |-> EmptyMap,
                  derive |-> None, bind |-> normalize_bind(Get(node, "bind", EmptyMap)),
                  publish |-> normalize_publish(node),
                  declaration_index |-> declaration_index, declaration_subindex |-> 0]
    IN  Put(basis, "node_uuid", uuid5(basis))

\* canonicalize.canonicalize_nodes_to_cpsv1.
canonicalize_nodes_to_cpsv1(nodes) ==
    [version |-> 1, nodes |-> [i \in DOMAIN nodes |-> canonicalize_node(nodes[i], i)]]

\* identity.compute_pipeline_id_cpsv1: "plid-" + sha256 of the serialized
\* CPSV1 document.
compute_pipeline_id_cpsv1(cps) == [plid |-> cps]

\* derive_edges_v1 as called by the compiler: the loop over all nodes, which
\* stops at the first error raised.
RECURSIVE DeriveLoop(_, _)
DeriveLoop(nodes, k) ==
    IF k = 0
    THEN [cp |-> EmptyMap, edges |-> <<>>, err |-> NoError, prev |-> NoUuid]
    ELSE LET before == DeriveLoop(nodes, k - 1)
         IN  IF before.err.kind # "none"
             THEN before
             ELSE LET r == DeriveNode(nodes[k], k, before.cp, before.edges, before.prev)
                  IN  [cp |-> r.cp, edges |-> r.edges, err |-> r.err,
                       prev |-> nodes[k].node_uuid]

\* A value that is not a mapping (a string, a list) found where a mapping is
\* expected: it is told apart from the mappings by its single reserved key.
NotAMapping == [k \in {"<scalar>"} |-> "addend"]

\* isinstance(v, Mapping).
IsMapping(v) == "<scalar>" \notin DOMAIN v

\* A bind source that is not a string (a number, a list).
NotAString == "<number>"

\* canonicalize._normalize_source_ref raises PipelineConfigurationError: the
\* source is not a string or is empty.
normalize_source_ref_raises(source) == source = NotAString \/ source = ""

\* canonicalize._normalize_bind raises: bind is not a mapping, or one of its
\* sources is rejected.
normalize_bind_raises(bind) ==
    \/ ~IsMapping(bind)
    \/ \E p \in DOMAIN bind : normalize_source_ref_raises(bind[p])

\* canonicalize._normalize_publish raises: publish is not a mapping, data_key
\* is empty, or context_key is empty.
normalize_publish_raises(node) ==
    \/ "publish" \in DOMAIN node /\ ~IsMapping(node.publish)
    \/ "data_key" \in DOMAIN node /\ node.data_key = ""
    \/ "context_key" \in DOMAIN node /\ node.context_key = ""

\* canonicalize_yaml_to_cpsv1 raises on a node list: some node is rejected by
\* _normalize_bind or _normalize_publish.
canonicalize_raises(nodes) ==
    \E i \in DOMAIN nodes :
        \/ normalize_bind_raises(Get(nodes[i], "bind", EmptyMap))
        \/ normalize_publish_raises(nodes[i])

\* ValueError("Bind/data_key authoring spec requires CPSV1 canonicalization,
\* but canonicalization failed.").
CanonicalizationRequired ==
    [kind |-> "error", error |-> "cpsv1_canonicalization_failed", idx |-> 0,
     param |-> "", channel |-> ""]

\* compiler._uses_bind_or_data_key.
uses_bind_or_data_key(nodes) ==
    \E i \in DOMAIN nodes : "bind" \in DOMAIN nodes[i] \/ "data_key" \in DOMAIN nodes[i]

\* compiler._fingerprint_source: the kind of input and a digest of its text.
fingerprint_source(spec, source_kind) ==
    [kind |-> source_kind, pipeline_spec_fingerprint |-> <<source_kind, spec>>]

\* compile_eir_v1: graph.nodes are the GraphV1 nodes, plan.node_order their
\* uuids, parameters.objects the node parameters per uuid; identity holds
\* pipeline_id, the GraphV1 hash unless _uses_bind_or_data_key; the CPSV1 form
\* and its derived edges are embedded beside them.  An exception raised by
\* canonicalize_yaml_to_cpsv1 is caught and leaves cpsv1 = None: the call then
\* raises ValueError when _uses_bind_or_data_key, and otherwise returns the
\* document without the CPSV1 form and without derived edges.  An error raised
\* by derive_edges_v1 leaves the call.
compile_eir_v1(spec, created_at, source_kind) ==
    LET canonical_graph == build_canonical_spec(spec)
        failed == canonicalize_raises(spec)
        cps == canonicalize_nodes_to_cpsv1(spec)
        derived == DeriveLoop(cps.nodes, Len(cps.nodes))
        pipeline_id == IF uses_bind_or_data_key(spec)
                       THEN compute_pipeline_id_cpsv1(cps)
                       ELSE compute_pipeline_id(canonical_graph)
        node_order == [i \in DOMAIN spec |-> canonical_graph.nodes[i].node_uuid]
        parameters == [u \in {canonical_graph.nodes[i].node_uuid : i \in DOMAIN spec} |->
                          canonical_graph.nodes[CHOOSE i \in DOMAIN spec :
                              canonical_graph.nodes[i].node_uuid = u].params]
    IN  IF failed /\ uses_bind_or_data_key(spec)
        THEN CanonicalizationRequired
        ELSE IF failed
        THEN [eir_version |-> 1,
              build |-> [semantiva_version |-> "0.x",
                         compiler_version |-> "eir-compiler-1",
                         created_at |-> created_at],
              source |-> fingerprint_source(spec, source_kind),
              identity |-> [pipeline_id |-> compute_pipeline_id(canonical_graph)],
              graph_nodes |-> canonical_graph.nodes,
              node_order |-> node_order,
              parameters |-> parameters]
        ELSE IF derived.err.kind # "none"
        THEN derived.err
        ELSE [eir_version |-> 1,
              build |-> [semantiva_version |-> "0.x",
                         compiler_version |-> "eir-compiler-1",
                         created_at |-> created_at],
              source |-> fingerprint_source(spec, source_kind),
              identity |-> [pipeline_id |-> pipeline_id],
              graph_nodes |-> canonical_graph.nodes,
              node_order |-> node_order,
              parameters |-> parameters,
              canonical_pipeline_spec |-> cps,
              derived_edges |-> derived.edges]

\* An IR document whose graph nodes carry bind and publish declarations.
EirWithDeclarations(spec) ==
    [graph_nodes |-> [i \in DOMAIN spec |->
                        [node_uuid |-> <<i>>, processor_ref |-> spec[i].processor,
                         bind |-> spec[i].bind, publish |-> spec[i].publish]],
     node_order |-> [i \in DOMAIN spec |-> <<i>>],
     parameters |-> [u \in {<<i>> : i \in DOMAIN spec} |-> spec[u[1]].parameters],
     canonical_pipeline_spec |-> <<>>]

\* runtime._resolved_nodes_from_eir: one node_def per entry of node_order,
\* holding the processor reference and the parameters only.
resolved_nodes_from_eir(doc) ==
    [i \in DOMAIN doc.node_order |->
        [processor |-> (CHOOSE n \in {doc.graph_nodes[j] : j \in DOMAIN doc.graph_nodes} :
                            n.node_uuid = doc.node_order[i]).processor_ref,
         parameters |-> doc.parameters[doc.node_order[i]]]]

\* The node_uuid attribute of the i-th runtime node built by
\* _pipeline_node_factory: the uuid of the plan entry it was built for.
NodeUuidAttr(doc, i) == doc.node_order[i]

\* node_spec_by_uuid.get(node_uuid, node_def): the graph node of that uuid, else
\* the node_def, which declares neither bind nor publish.
NodeSpec(doc, node_uuid, node_def) ==
    LET found == {n \in {doc.graph_nodes[j] : j \in DOMAIN doc.graph_nodes} :
                     n.node_uuid = node_uuid}
    IN  IF found # {} THEN CHOOSE n \in found : TRUE ELSE node_def

\* node_spec.get("bind") or {}.
NodeBinds(node_spec) == Get(node_spec, "bind", EmptyMap)

(***************************************************************************)
(* execute_eir_payload_algebra: the node loop                              *)
(***************************************************************************)
\* The resolution loop over param_names; the first failure is raised.
RECURSIVE ResolveLoop(_, _, _, _, _, _, _)
ResolveLoop(names, k, binds, params_cfg, ctx, store, snapshot) ==
    IF k = 0
    THEN [err |-> NoError, res |-> EmptyMap]
    ELSE LET prev == ResolveLoop(names, k - 1, binds, params_cfg, ctx, store, snapshot)
             r == resolve_param_value(names[k], binds, params_cfg, ctx, store,
                                      MISSING, snapshot)
         IN  IF prev.err.kind # "none" THEN prev
             ELSE IF r.kind = "error" THEN [err |-> r, res |-> prev.res]
             ELSE [err |-> NoError, res |-> Put(prev.res, names[k], r)]

\* input_channel: primary unless `data` is explicitly bound to a channel.
InputChannel(binds) ==
    IF "data" \in DOMAIN binds /\ parse_source_ref(binds["data"]).kind = "channel"
    THEN parse_source_ref(binds["data"]).key
    ELSE "primary"

\* written_keys: keys added by the call and keys whose fingerprint changed.
WrittenKeys(pre, post) ==
    (DOMAIN post \ DOMAIN pre) \cup {k \in DOMAIN pre \cap DOMAIN post : pre[k] # post[k]}

\* param_sources and param_source_refs of a node's provenance record.
ParamSources(res) == [p \in DOMAIN res |-> res[p].source]

ParamSourceRefs(res) ==
    [p \in {q \in DOMAIN res : res[q].source_ref # NoRef} |-> res[p].source_ref]

\* upstream: the node producers of the resolved references, in resolution
\* order, without repetition.
RECURSIVE Upstream(_, _, _)
Upstream(order, refs, k) ==
    IF k = 0 THEN <<>>
    ELSE LET prev == Upstream(order, refs, k - 1)
             p == order[k]
         IN  IF /\ p \in DOMAIN refs
                /\ refs[p].producer.kind = "node"
                /\ refs[p].producer.node_uuid # NoUuid
                /\ \A j \in DOMAIN prev : prev[j] # refs[p].producer.node_uuid
             THEN Append(prev, refs[p].producer.node_uuid)
             ELSE prev

PrimaryMissing == ResolutionError("primary_missing", "", <<>>)

\* An exception raised by node.process.
ProcessorException == [kind |-> "error", error |-> "processor_exception",
                       param |-> "", detail |-> <<>>]

\* Values a processor can return as data, and the initial payload data.
Values == {"v1", "v2"}

\* The contexts a call can return: the context it was given (nothing written,
\* or a key rewritten with the value it had), or that context with one key
\* created or set to a value different from the one it had.
ProcessorContexts(ctx) ==
    {ctx} \cup {Put(ctx, k, IF k \in DOMAIN ctx /\ ctx[k] = "c2" THEN "c1" ELSE "c2") :
                  k \in {"other", "k"}}

\* The initial payload contexts.
PayloadContexts == {EmptyMap, [k \in {"other", "k"} |-> "c1"]}

\* The state on entry to the node loop for IR document doc and a payload.
ExecStart(doc, data, ctx) ==
    /\ eir = doc
    /\ run_channels = seed_primary(EmptyMap, data)
    /\ in_channels = seed_primary(EmptyMap, data)
    /\ run_context = ctx
    /\ context_producer_store = ContextProducerStore(DOMAIN ctx)
    /\ provenance = <<>>
    /\ xidx = 0
    /\ xout = [kind |-> "running"]

\* A variant of Abort that discards what earlier nodes published: only the
\* primary channel survives the failure.
AbortRollingBack(err, store, producers) ==
    /\ xout' = err
    /\ run_channels' = [c \in DOMAIN store \cap {"primary"} |-> store[c]]
    /\ context_producer_store' = producers
    /\ in_channels' = run_channels
    /\ UNCHANGED <<xidx, run_context, provenance>>

\* An exception leaves the node loop: err reaches the caller, nothing is
\* returned, and the stores stay as the failing iteration found or left them.
Abort(err, store, producers) ==
    /\ xout' = err
    /\ run_channels' = store
    /\ context_producer_store' = producers
    /\ in_channels' = run_channels
    /\ UNCHANGED <<xidx, run_context, provenance>>

\* One iteration of the node loop.
ExecNode ==
    /\ xout.kind = "running"
    /\ xidx < Len(eir.node_order)
    /\ LET i == xidx + 1
           node_def == resolved_nodes_from_eir(eir)[i]
           node_uuid == NodeUuidAttr(eir, i)
           node_spec == NodeSpec(eir, node_uuid, node_def)
           binds == NodeBinds(node_spec)
           out_channel == from_cpsv1(node_spec)
           params_cfg == node_def.parameters
           param_names == get_processing_parameter_names(node_def.processor)
           snapshot == context_producer_store
           loop == ResolveLoop(param_names, Len(param_names), binds, params_cfg,
                               run_context, run_channels, snapshot)
           data_result == resolve_param_value("data", binds, params_cfg, run_context,
                                              run_channels, MISSING, snapshot)
           input_channel == InputChannel(binds)
       IN  IF loop.err.kind # "none"
           THEN Abort(loop.err, run_channels, context_producer_store)
           ELSE IF data_result.kind = "error"
           THEN Abort(data_result, run_channels, context_producer_store)
           ELSE \/ Abort(ProcessorException, run_channels, context_producer_store)
                \/ \E value \in Values, post \in ProcessorContexts(run_context) :
                     LET res == Put(loop.res, "data", data_result)
                         refs == ParamSourceRefs(res)
                         order == param_names \o <<"data">>
                         producers == mark_written(context_producer_store,
                                                   WrittenKeys(run_context, post), node_uuid)
                         published == PublishOutput(run_channels,
                                          is_passthrough_node(node_def.processor),
                                          out_channel, input_channel, value, node_uuid)
                     IN  IF "primary" \notin DOMAIN published
                         THEN Abort(PrimaryMissing, published, producers)
                         ELSE /\ run_channels' = published
                              /\ in_channels' = run_channels
                              /\ context_producer_store' = producers
                              /\ run_context' = post
                              /\ provenance' = Append(provenance,
                                     [node_uuid |-> node_uuid,
                                      param_sources |-> ParamSources(res),
                                      param_source_refs |-> refs,
                                      upstream |-> Upstream(order, refs, Len(order))])
                              /\ xidx' = i
                              /\ xout' = xout
    /\ UNCHANGED <<authored, compilations, eir>>
    /\ UNCHANGED <<resolverVars, deriveVars, auxVars>>

\* The loop is exhausted: Payload(data, context) is returned.
ExecReturn ==
    /\ xout.kind = "running"
    /\ xidx = Len(eir.node_order)
    /\ xout' = [kind |-> "returned", data |-> run_channels["primary"].value]
    /\ UNCHANGED <<authored, compilations, eir, run_channels, run_context,
                   context_producer_store, provenance, xidx, in_channels>>
    /\ UNCHANGED <<resolverVars, deriveVars, auxVars>>

ExecNext == ExecNode \/ ExecReturn

(***************************************************************************)
(* Execution specification: IR documents whose graph nodes declare bind    *)
(* and publish, over bounded node declarations and payloads.               *)
(***************************************************************************)
MaxExecNodes == 2

ExecBindMaps ==
    {bm \in MapsFrom({"data", "other"}, {"channel:addend", "context:k"}) :
        "other" \in DOMAIN bm => bm["other"] = "channel:addend"}

ExecPublishMaps == {EmptyMap} \cup {[s \in {"out"} |-> "addend"]}

ExecParameters == {EmptyMap} \cup {[p \in {"other"} |-> "n1"]}

\* Node declarations.  `other` is wired only on a processor that declares it;
\* a source is declared without bind; the operation with a declared default
\* is declared with or without a literal `other`, and without bind.
ExecNodeDecls ==
    {d \in [processor : ProcessorRefs, parameters : ExecParameters,
            bind : ExecBindMaps, publish : ExecPublishMaps] :
        /\ d.processor \in {"Source", "Probe"}
               => ("other" \notin DOMAIN d.bind /\ d.parameters = EmptyMap)
        /\ d.processor \in {"Source", "AddWithDefault"} => d.bind = EmptyMap}

ExecSpecs == UNION {[1..n -> ExecNodeDecls] : n \in 1..MaxExecNodes}

ExecInit ==
    /\ AuxIdle
    /\ authored = <<>>
    /\ compilations = <<>>
    /\ \E spec \in ExecSpecs, data \in Values, ctx \in PayloadContexts :
           ExecStart(EirWithDeclarations(spec), data, ctx)
    /\ ResolverIdle
    /\ DeriveIdle

SpecExec == ExecInit /\ [][ExecNext]_vars

(***************************************************************************)
(* Compile-and-execute specification: authoring specs built from the       *)
(* reference declarations are compiled by compile_eir_v1 and the resulting *)
(* document is executed.                                                   *)
(***************************************************************************)
SourceToAddend ==
    [processor |-> "Source", parameters |-> EmptyMap,
     publish |-> [s \in {"out"} |-> "addend"]]

SourceToPrimary ==
    [processor |-> "Source", parameters |-> EmptyMap,
     publish |-> [s \in {"out"} |-> "primary"]]

AddBound ==
    [processor |-> "Add", parameters |-> EmptyMap,
     bind |-> [p \in {"data", "other"} |->
                  IF p = "data" THEN "channel:primary" ELSE "channel:addend"]]

AddUnbound == [processor |-> "Add", parameters |-> EmptyMap]

AuthoredDecls == {SourceToAddend, SourceToPrimary, AddBound, AddUnbound}

AuthoredSpecs == UNION {[1..n -> AuthoredDecls] : n \in 1..MaxNodes}

\* datetime.now() at the compilations, and the kinds of input a spec is
\* handed over as.
CreatedAts == {1, 2}

SourceKinds == {"yaml_string", "node_list"}

\* The specs compile_eir_v1 returns a document for are executed.
CompiledInit ==
    /\ AuxIdle
    /\ authored \in AuthoredSpecs
    /\ compilations = <<>>
    /\ \E created_at \in CreatedAts, source_kind \in SourceKinds :
         LET doc == compile_eir_v1(authored, created_at, source_kind)
         IN  /\ "eir_version" \in DOMAIN doc
             /\ \E data \in Values, ctx \in PayloadContexts : ExecStart(doc, data, ctx)
    /\ ResolverIdle
    /\ DeriveIdle

SpecCompiled == CompiledInit /\ [][ExecNext]_vars

(***************************************************************************)
(* Compilation specification: compile_eir_v1 is called on an authoring     *)
(* spec drawn from bounded declarations, and called again, at the same or  *)
(* a later time, on the same spec or on another writing of it.             *)
(***************************************************************************)
MaxCompileNodes == 2

MaxCompilations == 2

\* Bind maps as authors write them: `data` left out or bound to the primary
\* channel, `other` left out or bound to channel addend, with or without the
\* channel: prefix.
CompileBindMaps ==
    {bm \in MapsFrom({"data", "other"},
                     {"primary", "channel:primary", "addend", "channel:addend"}) :
        /\ DOMAIN bm # {"data", "other"}
        /\ "data" \in DOMAIN bm => bm["data"] \in {"primary", "channel:primary"}
        /\ "other" \in DOMAIN bm => bm["other"] \in {"addend", "channel:addend"}}

CompilePublishMaps == {[s \in {"out"} |-> c] : c \in ChannelNames}

\* A declaration with the optional keys its author wrote.
WithOptionalKeys(base, bind, publish, data_key) ==
    LET b == IF bind = <<>> THEN base ELSE Put(base, "bind", bind[1])
        pb == IF publish = <<>> THEN b ELSE Put(b, "publish", publish[1])
    IN  IF data_key = <<>> THEN pb ELSE Put(pb, "data_key", data_key[1])

\* Node declarations: `other` is bound only on the processor that declares
\* it, and the output is named by publish or by data_key.
CompileDecls ==
    {d \in {WithOptionalKeys([processor |-> pr, parameters |-> EmptyMap], b, pb, dk) :
              pr \in {"Source", "Add"},
              b \in {<<>>} \cup {<<bm>> : bm \in CompileBindMaps},
              pb \in {<<>>} \cup {<<pm>> : pm \in CompilePublishMaps},
              dk \in {<<>>, <<"addend">>}} :
        /\ d.processor = "Source" => "other" \notin DOMAIN Get(d, "bind", EmptyMap)
        /\ d.processor = "Source" => Get(d, "bind", EmptyMap) # EmptyMap
        /\ "data_key" \in DOMAIN d => "publish" \notin DOMAIN d}

CompileSpecs == UNION {[1..n -> CompileDecls] : n \in 1..MaxCompileNodes}

\* The writings of one source: with or without the channel: prefix.
SourceWritings(source) ==
    IF source \in {"primary", "channel:primary"} THEN {"primary", "channel:primary"}
    ELSE IF source \in {"addend", "channel:addend"} THEN {"addend", "channel:addend"}
    ELSE {source}

\* Two writings of one declaration: they differ at most in whether bind.data
\* and publish.channels.out are written out (as channel:primary and primary)
\* or omitted, and in whether sources carry the channel: prefix.
SameDeclaration(a, b) ==
    LET ba == Get(a, "bind", EmptyMap)
        bb == Get(b, "bind", EmptyMap)
        pa == Get(a, "publish", EmptyMap)
        pb == Get(b, "publish", EmptyMap)
    IN  /\ a.processor = b.processor
        /\ a.parameters = b.parameters
        /\ ("data_key" \in DOMAIN a) = ("data_key" \in DOMAIN b)
        /\ "data_key" \in DOMAIN a => a.data_key = b.data_key
        /\ (DOMAIN ba) \ {"data"} = (DOMAIN bb) \ {"data"}
        /\ \A p \in (DOMAIN ba) \ {"data"} : bb[p] \in SourceWritings(ba[p])
        /\ Get(bb, "data", "channel:primary") \in SourceWritings(Get(ba, "data", "channel:primary"))
        /\ (DOMAIN pa) \ {"out"} = (DOMAIN pb) \ {"out"}
        /\ \A sl \in (DOMAIN pa) \ {"out"} : pb[sl] = pa[sl]
        /\ Get(pa, "out", "primary") = Get(pb, "out", "primary")

\* The writings of the declarations of a spec, position by position.
Rewritings(spec) ==
    LET W(i) == {d \in CompileDecls : SameDeclaration(spec[i], d)}
    IN  {s2 \in [DOMAIN spec -> UNION {W(i) : i \in DOMAIN spec}] :
            \A i \in DOMAIN spec : s2[i] \in W(i)}

CompileInit ==
    /\ AuxIdle
    /\ compilations = <<>>
    /\ authored = <<>> /\ eir = [kind |-> "idle"] /\ run_channels = EmptyMap
    /\ run_context = EmptyMap /\ context_producer_store = EmptyMap
    /\ provenance = <<>> /\ xidx = 0 /\ in_channels = EmptyMap
    /\ xout = [kind |-> "idle"]
    /\ ResolverIdle
    /\ DeriveIdle

\* One call of compile_eir_v1, recorded with its input, the canonical graph
\* and the CPSV1 form it built, and the document returned or the error raised.
CompileCall ==
    /\ Len(compilations) < MaxCompilations
    /\ \E spec \in (IF compilations = <<>>
                    THEN CompileSpecs
                    ELSE Rewritings(compilations[Len(compilations)].spec)),
          created_at \in {t \in CreatedAts :
                            IF compilations = <<>>
                            THEN t = 1
                            ELSE t >= compilations[Len(compilations)].created_at},
          source_kind \in SourceKinds :
            compilations' = Append(compilations,
                [spec |-> spec, created_at |-> created_at,
                 canonical_graph |-> build_canonical_spec(spec),
                 cpsv1 |-> canonicalize_nodes_to_cpsv1(spec),
                 eir |-> compile_eir_v1(spec, created_at, source_kind)])
    /\ UNCHANGED <<authored, eir, run_channels, run_context, context_producer_store,
                   provenance, xidx, in_channels, xout>>
    /\ UNCHANGED <<resolverVars, deriveVars, auxVars>>

CompileNext == CompileCall

SpecCompile == CompileInit /\ [][CompileNext]_vars


(***************************************************************************)
(* Properties of resolve_param_value                                       *)
(***************************************************************************)
RDone == rres.kind # "pending"

RExplicit == rcall.param_name \in DOMAIN rcall.binds

RInNode == rcall.param_name \in DOMAIN rcall.node_params

RInContext == rcall.param_name \in DOMAIN rcall.context

\* The outcome of resolving the bound source `raw`: the value held by the
\* bound channel or context key, or the missing-source error.
RBoundOutcome(raw) ==
    LET ref == parse_source_ref(raw)
    IN  IF ref.kind = "channel"
        THEN IF ref.key \in DOMAIN rcall.channels
             THEN /\ rres.kind = "ok"
                  /\ rres.value = rcall.channels[ref.key].value
                  /\ rres.source = "data"
             ELSE rres.kind = "error" /\ rres.error = "channel_not_available"
        ELSE IF ref.key \in DOMAIN rcall.context
             THEN /\ rres.kind = "ok"
                  /\ rres.value = rcall.context[ref.key]
                  /\ rres.source = "context"
             ELSE rres.kind = "error" /\ rres.error = "context_key_not_available"

\* Precedence below the bind: node parameter, context key, default, error.
RUnboundOutcome ==
    IF RInNode
    THEN /\ rres.kind = "ok" /\ rres.source = "node"
         /\ rres.value = rcall.node_params[rcall.param_name]
    ELSE IF RInContext
    THEN /\ rres.kind = "ok" /\ rres.source = "context"
         /\ rres.value = rcall.context[rcall.param_name]
    ELSE IF rcall.default # MISSING
    THEN rres.kind = "ok" /\ rres.source = "default" /\ rres.value = rcall.default
    ELSE rres.kind = "error" /\ rres.error = "unable_to_resolve"

\* C1 (as claimed): for every parameter p, an explicit bind (without conflict)
\* yields the bound value; without an explicit bind the literal node
\* parameter, else the context key named p, else the default is used, else
\* the 'cannot resolve parameter' error is raised.
C1_StrictPrecedenceEveryParam ==
    RDone =>
        IF RExplicit
        THEN (~(RInNode \/ RInContext)) => RBoundOutcome(rcall.binds[rcall.param_name])
        ELSE RUnboundOutcome

\* C1 (amended): the same precedence, where `data` without an explicit bind
\* counts as bound to channel:primary; only a parameter that is neither
\* bound nor `data` falls through to node parameter, context, default, error.
C1_StrictPrecedence ==
    RDone =>
        IF RExplicit \/ rcall.param_name = "data"
        THEN (~(RInNode \/ RInContext)) =>
                 RBoundOutcome(IF RExplicit THEN rcall.binds[rcall.param_name]
                               ELSE "channel:primary")
        ELSE RUnboundOutcome

\* C1 witness: an unbound parameter present both as a literal node parameter
\* and as a context key, with a default supplied, was resolved from the node.
C1_Witness ==
    /\ RDone /\ ~RExplicit /\ rcall.param_name = "other"
    /\ RInNode /\ RInContext /\ rcall.default # MISSING
    /\ rres.kind = "ok" /\ rres.source = "node"

\* C2: an explicitly bound parameter that is also a literal node parameter
\* and/or a context key raises the ambiguity error naming exactly the
\* conflicting locations; a bound parameter is resolved from its bind only
\* when neither conflict exists.
C2_BindConflictIsAmbiguity ==
    (RDone /\ RExplicit) =>
        /\ (RInNode \/ RInContext) =>
              /\ rres.kind = "error" /\ rres.error = "ambiguous"
              /\ rres.param = rcall.param_name
              /\ (\E i \in DOMAIN rres.detail : rres.detail[i] = "node parameters")
                    <=> RInNode
              /\ (\E i \in DOMAIN rres.detail : rres.detail[i] = "context")
                    <=> RInContext
        /\ rres.kind = "ok" => ~(RInNode \/ RInContext)

\* C2 witness: a bind that conflicts with both locations was rejected, the
\* error naming both.
C2_Witness ==
    /\ RDone /\ RExplicit /\ RInNode /\ RInContext
    /\ rres.kind = "error" /\ rres.error = "ambiguous"
    /\ rres.detail = <<"node parameters", "context">>

\* C3 (as claimed): a parameter with no explicit bind entry, `data` included,
\* never raises the ambiguity error.
C3_NoAmbiguityWithoutExplicitBind ==
    (RDone /\ ~RExplicit) => ~(rres.kind = "error" /\ rres.error = "ambiguous")

\* C3 (amended): a parameter other than `data` with no explicit bind entry
\* never raises the ambiguity error; `data` without an explicit entry is
\* treated as bound to channel:primary and raises it exactly when `data` is
\* also a literal node parameter or a context key.
C3_AmbiguityOnlyWhenBound ==
    (RDone /\ ~RExplicit) =>
        ((rres.kind = "error" /\ rres.error = "ambiguous")
            <=> (rcall.param_name = "data" /\ (RInNode \/ RInContext)))

\* C3 witness: an unbound non-data parameter that is both a node parameter
\* and a context key was resolved without an ambiguity error.
C3_Witness ==
    /\ RDone /\ ~RExplicit /\ rcall.param_name = "other"
    /\ RInNode /\ RInContext /\ rcall.binds # EmptyMap
    /\ rres.kind = "ok"

(***************************************************************************)
(* Properties of derive_edges_v1                                           *)
(***************************************************************************)
NonPrimary == ChannelNames \ {"primary"}

\* Node i publishes channel c through some output slot.
Publishes(i, c) ==
    \E slot \in DOMAIN cpsv1[i].publish : cpsv1[i].publish[slot] = c

\* Node j binds parameter p to the non-primary channel c.
BindsChannel(j, p, c) ==
    /\ p \in DOMAIN cpsv1[j].bind
    /\ IsChannelRef(cpsv1[j].bind[p])
    /\ ChannelOf(cpsv1[j].bind[p]) = c

\* The derivation stopped with an error at bind entry p of node j.
FailedAtBind(j, p) ==
    dout.kind = "error" /\ dout.idx = j /\ dout.param = p

\* C6 (as claimed): when the derivation reaches a bind of node j to a
\* non-primary channel c that is published, but by no node declared strictly
\* before j (a later node or j itself), the error raised is 'producer must
\* precede consumer'.
C6_MustPrecedeForLaterOrSelfProducer ==
    \A j \in 1..didx : \A p \in ParamNames : \A c \in NonPrimary :
        ( /\ FailedAtBind(j, p)
          /\ BindsChannel(j, p, c)
          /\ \E i \in j..Len(cpsv1) : Publishes(i, c)
          /\ ~(\E i \in 1..(j - 1) : Publishes(i, c)) )
        => dout.error = "must_precede"

\* C7: as soon as the loop has processed the publish map of a node that
\* publishes a non-primary channel already published by an earlier node,
\* the derivation has raised 'multiple writers' at that node, in its publish
\* loop, whether or not any node binds the channel; `primary` never raises it.
C7_MultipleWriters ==
    /\ \A i \in 1..didx : \A j \in 1..didx : \A c \in NonPrimary :
          (i < j /\ Publishes(i, c) /\ Publishes(j, c)) =>
              /\ dout.kind = "error" /\ dout.error = "multiple_writers"
              /\ dout.idx = j /\ dout.param = ""
    /\ (dout.kind = "error" /\ dout.error = "multiple_writers") =>
          /\ dout.channel # "primary"
          /\ \E i \in 1..dout.idx : Publishes(i, dout.channel)
          /\ Publishes(dout.idx, dout.channel)

\* C7 witness: two nodes publish `addend` (both also publish `primary`), no
\* node binds `addend`, and 'multiple writers' was raised at the second.
C7_Witness ==
    /\ dout.kind = "error" /\ dout.error = "multiple_writers" /\ dout.idx = 2
    /\ Publishes(1, "addend") /\ Publishes(2, "addend")
    /\ Publishes(1, "primary") /\ Publishes(2, "primary")
    /\ \A j \in 1..Len(cpsv1) : \A p \in ParamNames : ~BindsChannel(j, p, "addend")

\* Node j binds p to a non-primary channel that no node of the list publishes.
Dangling(j, p) ==
    \E c \in NonPrimary :
        BindsChannel(j, p, c) /\ \A i \in 1..Len(cpsv1) : ~Publishes(i, c)

ExecActive == xout.kind # "idle"

\* The last loop iteration ran to its end: node xidx was resolved, invoked and
\* published, and in_channels is the store it found.
StepDone == xidx >= 1 /\ xout.kind \in {"running", "returned"}

NodeDefAt(i) == resolved_nodes_from_eir(eir)[i]

NodeSpecAt(i) == NodeSpec(eir, NodeUuidAttr(eir, i), NodeDefAt(i))

PassthroughAt(i) == is_passthrough_node(NodeDefAt(i).processor)

OutChannelAt(i) == from_cpsv1(NodeSpecAt(i))

InChannelAt(i) == InputChannel(NodeBinds(NodeSpecAt(i)))

\* The value node xidx published equals the value its output channel held
\* before the call.
ValueUnchanged ==
    /\ OutChannelAt(xidx) \in DOMAIN in_channels
    /\ run_channels[OutChannelAt(xidx)].value = in_channels[OutChannelAt(xidx)].value

\* C4: after the step of a pass-through node whose output channel is its input
\* channel and whose published value equals the pre-call value of that
\* channel, the channel entry still names the upstream producer, and never
\* the pass-through node itself.
C4_PassthroughKeepsUpstreamProducer ==
    (StepDone /\ PassthroughAt(xidx) /\ OutChannelAt(xidx) = InChannelAt(xidx)
        /\ ValueUnchanged)
    => /\ run_channels[OutChannelAt(xidx)].producer
              = in_channels[OutChannelAt(xidx)].producer
       /\ run_channels[OutChannelAt(xidx)].producer
              # NodeProducer(NodeUuidAttr(eir, xidx))

\* C4 witness: the second node is pass-through on the channel an earlier node
\* produced, republishes the same value, and the entry keeps that producer.
C4_Witness ==
    /\ StepDone /\ xidx = 2
    /\ PassthroughAt(2) /\ OutChannelAt(2) = InChannelAt(2)
    /\ ValueUnchanged
    /\ in_channels[OutChannelAt(2)].producer = NodeProducer(NodeUuidAttr(eir, 1))
    /\ run_channels[OutChannelAt(2)].producer = NodeProducer(NodeUuidAttr(eir, 1))

\* C5: after the step of a node that is not pass-through, or whose published
\* value differs from the pre-call value of the channel it publishes to, the
\* producer of that channel entry is Node(uuid of that node, 'out').
C5_ChangedValueOrNotPassthroughTakesProducer ==
    (StepDone /\ (~PassthroughAt(xidx) \/ ~ValueUnchanged))
    => run_channels[OutChannelAt(xidx)].producer
           = NodeProducer(NodeUuidAttr(eir, xidx))

\* C9: in every state of a run, from the seeded store on, after each node step
\* (whatever channel it published to) and after an abort, the channel store
\* holds a `primary` entry whose value is not MISSING, so the abort that
\* answers a missing primary after publish is never taken.
C9_PrimaryAlwaysPresent ==
    ExecActive =>
        /\ "primary" \in DOMAIN run_channels
        /\ run_channels["primary"].value # MISSING
        /\ xout # PrimaryMissing

\* C9 witness: a run of two nodes that both published only to channel addend
\* returned, with primary still in the store.
C9_Witness ==
    /\ xout.kind = "returned" /\ xidx = 2
    /\ \A i \in 1..2 : OutChannelAt(i) = "addend"
    /\ run_channels["addend"].producer = NodeProducer(NodeUuidAttr(eir, 2))
    /\ "primary" \in DOMAIN run_channels

\* The three-node pipeline of C10.
SourceAddSource == <<SourceToAddend, AddBound, SourceToPrimary>>

\* C10: for the compiled pipeline [Source -> addend], [Add, other <- channel
\* addend, data <- channel primary], [Source -> primary], the Add node does not
\* fail to resolve `other` when the context has no such key, and once it has
\* run its `other` parameter is attributed to channel addend produced by the
\* first Source node.
C10_AddOtherAttributedToFirstSource ==
    authored = SourceAddSource =>
        /\ (xidx = 1 /\ xout.kind = "error" /\ "other" \notin DOMAIN run_context)
               => xout = ProcessorException
        /\ xidx >= 2 =>
               /\ "other" \in DOMAIN provenance[2].param_source_refs
               /\ provenance[2].param_source_refs["other"]
                      = DataSourceRef("addend", NodeProducer(NodeUuidAttr(eir, 1)))

(***************************************************************************)
(* Properties of context-key producer tracking                             *)
(***************************************************************************)
\* The loop iteration of node xidx + 1 ran to its end in this step.
NodeCompletes == xidx' = xidx + 1

\* Key k of the context returned by the call was created by it or differs
\* from the value the call was given.
CreatedOrChanged(k) == k \notin DOMAIN run_context \/ run_context[k] # run_context'[k]

ExecutedNodeProducers == {NodeProducer(NodeUuidAttr(eir, j)) : j \in 1..xidx}

UnableToResolve == xout.kind = "error" /\ xout.error = "unable_to_resolve"

\* C14: a run is aborted with "unable to resolve parameter p" only when the
\* processor of the failing node declares no default for p; a parameter with
\* a declared default and no other source resolves to it and the run goes on.
C14_DeclaredDefaultIsUsed ==
    UnableToResolve =>
        declared_default(NodeDefAt(xidx + 1).processor, xout.param) = MISSING

(***************************************************************************)
(* The `data` default and missing bound sources                            *)
(***************************************************************************)
RUnboundData == RDone /\ rcall.param_name = "data" /\ ~RExplicit

\* The value of channel primary, with source 'data' and a reference to channel
\* primary carrying the producer of that entry.
RPrimaryResult ==
    ResolvedParam(rcall.channels["primary"].value, "data",
                  DataSourceRef("primary", rcall.channels["primary"].producer))

RBoundRef == parse_source_ref(rcall.binds[rcall.param_name])

\* C16: a parameter explicitly bound to a channel that has no entry in the
\* store fails with the error naming the parameter and the channel; bound to a
\* context key absent from the context it fails with the error naming the
\* parameter and the key; no value is returned.
C16_MissingBoundSourceIsNamed ==
    (RDone /\ RExplicit) =>
        /\ (RBoundRef.kind = "channel" /\ RBoundRef.key \notin DOMAIN rcall.channels)
               => rres = ResolutionError("channel_not_available", rcall.param_name,
                                         <<RBoundRef.key>>)
        /\ (RBoundRef.kind = "context" /\ RBoundRef.key \notin DOMAIN rcall.context)
               => rres = ResolutionError("context_key_not_available", rcall.param_name,
                                         <<RBoundRef.key>>)

(***************************************************************************)
(* Properties of compilation identity                                      *)
(***************************************************************************)
\* compile_eir_v1 returned a document (it did not raise).
Returned(c) == "eir_version" \in DOMAIN c.eir

\* Some node of the spec declares `bind`, a `data_key`, or a publish channel
\* other than primary.
DeclaresBindOrNamedTarget(spec) ==
    \E i \in DOMAIN spec :
        \/ "bind" \in DOMAIN spec[i]
        \/ "data_key" \in DOMAIN spec[i]
        \/ \E sl \in DOMAIN Get(spec[i], "publish", EmptyMap) :
               spec[i].publish[sl] # "primary"

\* C17: the pipeline_id of a compiled document is the hash of the CPSV1 form
\* when some node of the authoring spec declares bind, a data_key or a publish
\* channel other than primary, and the hash of the canonical graph otherwise.
C17_PipelineIdIsCpsv1HashWhenDeclared ==
    \A k \in DOMAIN compilations :
        LET c == compilations[k]
        IN  Returned(c) =>
                c.eir.identity.pipeline_id
                    = IF DeclaresBindOrNamedTarget(c.spec)
                      THEN compute_pipeline_id_cpsv1(c.cpsv1)
                      ELSE compute_pipeline_id(c.canonical_graph)

\* Two specs that are writings of the same declarations, position by position.
SameSpec(a, b) ==
    Len(a) = Len(b) /\ \A i \in DOMAIN a : SameDeclaration(a[i], b[i])

\* C18: two compilations of writings of the same declarations (bind.data and
\* publish.channels.out omitted or written out, sources with or without the
\* channel: prefix) build the same CPSV1 nodes, with the same node_uuid values,
\* and the same CPSV1 pipeline_id.
C18_WritingsShareCanonicalForm ==
    \A j \in DOMAIN compilations, k \in DOMAIN compilations :
        SameSpec(compilations[j].spec, compilations[k].spec) =>
            /\ compilations[j].cpsv1.nodes = compilations[k].cpsv1.nodes
            /\ \A i \in DOMAIN compilations[j].spec :
                   compilations[j].cpsv1.nodes[i].node_uuid
                       = compilations[k].cpsv1.nodes[i].node_uuid
            /\ compute_pipeline_id_cpsv1(compilations[j].cpsv1)
                   = compute_pipeline_id_cpsv1(compilations[k].cpsv1)

\* C18 witness: a node written without bind and publish was compiled, and then
\* compiled again written with data bound to the unprefixed `primary` and
\* slot out published to primary; a second node's `other` was written with the
\* prefix once and without it the other time.
C18_Witness ==
    /\ Len(compilations) = 2
    /\ Len(compilations[1].spec) = 2
    /\ DOMAIN compilations[1].spec[1] = {"processor", "parameters"}
    /\ "bind" \in DOMAIN compilations[2].spec[1]
    /\ "data" \in DOMAIN compilations[2].spec[1].bind
    /\ compilations[2].spec[1].bind["data"] = "primary"
    /\ "publish" \in DOMAIN compilations[2].spec[1]
    /\ compilations[2].spec[1].publish["out"] = "primary"
    /\ "bind" \in DOMAIN compilations[1].spec[2]
    /\ "other" \in DOMAIN compilations[1].spec[2].bind
    /\ compilations[1].spec[2].bind["other"] = "channel:addend"
    /\ compilations[2].spec[2].bind["other"] = "addend"
    /\ compilations[1].cpsv1 = compilations[2].cpsv1
    /\ compilations[1].cpsv1.nodes[1].bind["data"] = "channel:primary"
    /\ compilations[1].cpsv1.nodes[2].bind["other"] = "channel:addend"

\* C19: within one spec, two identical declarations at different positions
\* get different node_uuid values from the graph canonicalizer and from the
\* CPSV1 canonicalizer; across compilations, a declaration standing unchanged
\* at the same position gets the same node_uuid from each.
C19_PositionDistinguishesNodeUuid ==
    /\ \A k \in DOMAIN compilations :
           LET c == compilations[k]
           IN  \A i \in DOMAIN c.spec, j \in DOMAIN c.spec :
                   (i # j /\ c.spec[i] = c.spec[j]) =>
                       /\ c.canonical_graph.nodes[i].node_uuid
                              # c.canonical_graph.nodes[j].node_uuid
                       /\ c.cpsv1.nodes[i].node_uuid # c.cpsv1.nodes[j].node_uuid
    /\ \A j \in DOMAIN compilations, k \in DOMAIN compilations :
           \A i \in DOMAIN compilations[j].spec \cap DOMAIN compilations[k].spec :
               compilations[j].spec[i] = compilations[k].spec[i] =>
                   /\ compilations[j].canonical_graph.nodes[i].node_uuid
                          = compilations[k].canonical_graph.nodes[i].node_uuid
                   /\ compilations[j].cpsv1.nodes[i].node_uuid
                          = compilations[k].cpsv1.nodes[i].node_uuid

\* C19 witness: a spec of two identical declarations was compiled twice, the
\* second time with its second declaration written differently.
C19_Witness ==
    /\ Len(compilations) = 2
    /\ Len(compilations[1].spec) = 2
    /\ compilations[1].spec[1] = compilations[1].spec[2]
    /\ "bind" \in DOMAIN compilations[1].spec[1]
    /\ compilations[2].spec[1] = compilations[1].spec[1]
    /\ compilations[2].spec[2] # compilations[1].spec[2]
    /\ compilations[1].canonical_graph.nodes[1].node_uuid
           # compilations[1].canonical_graph.nodes[2].node_uuid
    /\ compilations[1].cpsv1.nodes[1].node_uuid # compilations[1].cpsv1.nodes[2].node_uuid

\* The identity hashes of a compiled document.
IdentityKeys == {"pipeline_id", "pipeline_variant_id", "eir_id"}

\* C20: every compiled document carries pipeline_id, pipeline_variant_id and
\* eir_id in its identity, and two compilations of the same spec, whatever
\* their creation times and source fingerprints, carry the same three values.
C20_IdentityIdsStableAcrossBuilds ==
    /\ \A k \in DOMAIN compilations :
           Returned(compilations[k]) =>
               IdentityKeys \subseteq DOMAIN compilations[k].eir.identity
    /\ \A j \in DOMAIN compilations, k \in DOMAIN compilations :
           (/\ Returned(compilations[j]) /\ Returned(compilations[k])
            /\ compilations[j].spec = compilations[k].spec) =>
               \A f \in IdentityKeys :
                   compilations[j].eir.identity[f] = compilations[k].eir.identity[f]

(***************************************************************************)
(* Order of source lookup and conflict check in the resolver               *)
(***************************************************************************)
\* The bound source of the call's parameter is missing: the bound channel has
\* no entry, or the bound context key is absent.
RBoundSourceMissing ==
    \/ RBoundRef.kind = "channel" /\ RBoundRef.key \notin DOMAIN rcall.channels
    \/ RBoundRef.kind = "context" /\ RBoundRef.key \notin DOMAIN rcall.context

\* C28: for an explicitly bound parameter whose bound source is missing and
\* which is also a literal node parameter or a context key, the call reports
\* the missing-source error and not the ambiguity error.
C28_MissingSourceReportedBeforeConflict ==
    (RDone /\ RExplicit /\ RBoundSourceMissing /\ (RInNode \/ RInContext)) =>
        /\ rres.kind = "error"
        /\ rres.error \in {"channel_not_available", "context_key_not_available"}
        /\ rres.error # "ambiguous"

(***************************************************************************)
(* Frame of a publication                                                  *)
(***************************************************************************)
\* C27: the publication of the node that just completed changed only the
\* entry of its output channel: every other channel the store held before the
\* call has the same value and producer, and no other channel was created.
C27_PublishChangesOnlyOutChannel ==
    StepDone =>
        /\ DOMAIN run_channels = DOMAIN in_channels \cup {OutChannelAt(xidx)}
        /\ \A c \in DOMAIN in_channels :
               c # OutChannelAt(xidx) => run_channels[c] = in_channels[c]

\* C27 witness: the second node published to channel addend a value other
\* than the one primary holds, replacing the entry the first node had
\* written; primary is as the second node found it.
C27_Witness ==
    /\ xidx = 2 /\ xout.kind = "running"
    /\ OutChannelAt(1) = "addend" /\ OutChannelAt(2) = "addend"
    /\ ~PassthroughAt(2)
    /\ run_channels["addend"] # in_channels["addend"]
    /\ run_channels["addend"].value # run_channels["primary"].value
    /\ run_channels["primary"] = in_channels["primary"]

(***************************************************************************)
(* Chain edges of channel:primary binds                                    *)
(***************************************************************************)
\* No error was raised by the derivation so far.
DeriveOk == dout.kind \in {"running", "returned"}

\* The positions in `edges` of the edges derived for parameter p of node j.
EdgesFor(j, p) ==
    {k \in DOMAIN edges :
        edges[k].target_node_uuid = cpsv1[j].node_uuid /\ edges[k].target_param = p}

\* C22: as long as no error is raised, every processed node's bind entry to
\* channel:primary has exactly one edge, from the node declared immediately
\* before it, or no edge when the node is the first one; a bind entry to a
\* context key has no edge.
C22_PrimaryBindChainsToPrecedingNode ==
    DeriveOk =>
        \A j \in 1..didx : \A p \in DOMAIN cpsv1[j].bind :
            /\ cpsv1[j].bind[p] = "channel:primary" =>
                   IF j = 1
                   THEN EdgesFor(j, p) = {}
                   ELSE /\ Cardinality(EdgesFor(j, p)) = 1
                        /\ \A k \in EdgesFor(j, p) :
                               /\ edges[k].source_node_uuid = cpsv1[j - 1].node_uuid
                               /\ edges[k].source_ref = "channel:primary"
            /\ IsContextRef(cpsv1[j].bind[p]) => EdgesFor(j, p) = {}

\* C22 witness: three nodes were processed; the first binds data to
\* channel:primary and has no edge; the second, declared after a node that
\* publishes only to addend, binds data to channel:primary and has its edge
\* from that node; the third binds `other` to a context key and has no edge
\* for it.
C22_Witness ==
    /\ dout.kind = "returned" /\ didx = 3
    /\ cpsv1[1].bind["data"] = "channel:primary"
    /\ \A sl \in DOMAIN cpsv1[1].publish : cpsv1[1].publish[sl] = "addend"
    /\ EdgesFor(1, "data") = {}
    /\ cpsv1[2].bind["data"] = "channel:primary"
    /\ \E k \in EdgesFor(2, "data") : edges[k].source_node_uuid = cpsv1[1].node_uuid
    /\ "other" \in DOMAIN cpsv1[3].bind
    /\ cpsv1[3].bind["other"] = "context:k"
    /\ EdgesFor(3, "other") = {}

(***************************************************************************)
(* Order of the derived edges                                              *)
(***************************************************************************)
\* The declaration position of the node with the given uuid.
PositionOf(node_uuid) == CHOOSE j \in DOMAIN cpsv1 : cpsv1[j].node_uuid = node_uuid

\* The rank of a parameter name in sorted order.
ParamRank(p) == CHOOSE k \in DOMAIN SortedParams : SortedParams[k] = p

\* C29: as long as no error is raised, the source of every derived edge is
\* declared strictly before its target, and the edges are listed by target
\* position and, for one target, by increasing parameter name.
C29_EdgesFollowDeclarationOrder ==
    DeriveOk =>
        /\ \A k \in DOMAIN edges :
               PositionOf(edges[k].source_node_uuid) < PositionOf(edges[k].target_node_uuid)
        /\ \A k \in DOMAIN edges, l \in DOMAIN edges :
               k < l =>
                   \/ PositionOf(edges[k].target_node_uuid)
                          < PositionOf(edges[l].target_node_uuid)
                   \/ /\ edges[k].target_node_uuid = edges[l].target_node_uuid
                      /\ ParamRank(edges[k].target_param) < ParamRank(edges[l].target_param)

\* C29 witness: a derivation over three nodes returned three edges or more,
\* two of them into the third node: its `data` from the second node and its
\* `other` from the first node, in that order.
C29_Witness ==
    /\ dout.kind = "returned" /\ didx = 3 /\ Len(edges) >= 3
    /\ \E k \in DOMAIN edges, l \in DOMAIN edges :
           /\ k < l
           /\ edges[k].target_node_uuid = cpsv1[3].node_uuid
           /\ edges[k].target_param = "data"
           /\ edges[k].source_node_uuid = cpsv1[2].node_uuid
           /\ edges[l].target_node_uuid = cpsv1[3].node_uuid
           /\ edges[l].target_param = "other"
           /\ edges[l].source_node_uuid = cpsv1[1].node_uuid

(***************************************************************************)
(* C23: a failing node aborts the run.                                     *)
(***************************************************************************)
RunFailed == xout.kind = "error"

\* C23: when a node fails (a resolution error or a processor exception) the
\* run aborts at once: the failure is the last step of the run, so no later
\* node is resolved or invoked and nothing is retried; the caller gets the
\* error and no payload; and the channels, the context, the context producers
\* and the provenance are exactly what the earlier nodes left.
C23_FailureAbortsRun ==
    [][/\ ~RunFailed
       /\ RunFailed' =>
              /\ "data" \notin DOMAIN xout'
              /\ xidx' = xidx
              /\ xidx < Len(eir.node_order)
              /\ run_channels' = run_channels
              /\ run_context' = run_context
              /\ context_producer_store' = context_producer_store
              /\ provenance' = provenance]_vars

\* C23 witness: the second of two nodes failed after the first published the
\* addend channel and wrote a context key; both writes are still there.
C23_Witness ==
    /\ RunFailed
    /\ xidx = 1
    /\ Len(eir.node_order) = 2
    /\ Len(provenance) = 1
    /\ "addend" \in DOMAIN run_channels
    /\ run_channels["addend"].producer = NodeProducer(NodeUuidAttr(eir, 1))
    /\ \E k \in DOMAIN run_context :
           get_producer(context_producer_store, k) = NodeProducer(NodeUuidAttr(eir, 1))

(***************************************************************************)
(* C30: derived edges against run-time producers.                          *)
(***************************************************************************)
\* derive_edges_v1 on the graph nodes of the IR being executed.
StaticEdges == DeriveLoop(eir.graph_nodes, Len(eir.graph_nodes))

\* The derived edges into parameter p of the node at position i.
StaticEdgesInto(i, p) ==
    {StaticEdges.edges[k] : k \in {l \in DOMAIN StaticEdges.edges :
        /\ StaticEdges.edges[l].target_node_uuid = eir.graph_nodes[i].node_uuid
        /\ StaticEdges.edges[l].target_param = p}}

\* The parameters of the node at position i bound to a non-primary channel.
NonPrimaryChannelBinds(i) ==
    {p \in DOMAIN NodeBinds(eir.graph_nodes[i]) :
        /\ IsChannelRef(eir.graph_nodes[i].bind[p])
        /\ ChannelOf(eir.graph_nodes[i].bind[p]) # "primary"}

PyDict(items) == [t |-> "dict", items |-> items]

PyList(items) == [t |-> "list", items |-> items]

PyAtom(text) == [t |-> "atom", v |-> text]

PyUuid(u) == [t |-> "uuid", v |-> u]

\* Every mapping key of a written or canonical document, in the order of
\* sort_keys (code-point order of the key strings).
KeyOrder ==
    <<"alpha", "beta", "declaration_index", "declaration_subindex", "derive",
      "edges", "node_uuid", "nodes", "parameters", "params", "ports",
      "processor", "processor_ref", "role", "source", "target", "version">>

\* Without sort_keys the items are emitted in insertion order.
InsertionOrderItems(items, k) == items

\* The items of a dict whose keys are KeyOrder[k], KeyOrder[k+1], ..., in
\* that order.
RECURSIVE SortedItems(_, _)
SortedItems(items, k) ==
    IF k > Len(KeyOrder)
    THEN <<>>
    ELSE SelectSeq(items, LAMBDA it : it[1] = KeyOrder[k]) \o SortedItems(items, k + 1)

\* stable_json_dumps_v1 and the json.dumps calls of graph_builder: the text as
\* a sequence of tokens, without any whitespace between them; the members of
\* every dict, nested ones included, are emitted in key order.
RECURSIVE json_dumps(_)
RECURSIVE JoinValues(_, _)
RECURSIVE JoinMembers(_, _)
JoinValues(items, k) ==
    IF k > Len(items)
    THEN <<>>
    ELSE (IF k > 1 THEN << <<",">> >> ELSE <<>>)
         \o json_dumps(items[k]) \o JoinValues(items, k + 1)

JoinMembers(items, k) ==
    IF k > Len(items)
    THEN <<>>
    ELSE (IF k > 1 THEN << <<",">> >> ELSE <<>>)
         \o << <<items[k][1]>>, <<":">> >>
         \o json_dumps(items[k][2])
         \o JoinMembers(items, k + 1)

json_dumps(obj) ==
    CASE obj.t = "atom" -> << <<obj.v>> >>
      [] obj.t = "uuid" -> << <<"uuid", obj.v>> >>
      [] obj.t = "list" -> << <<"[">> >> \o JoinValues(obj.items, 1) \o << <<"]">> >>
      [] obj.t = "dict" ->
             << <<"{">> >> \o JoinMembers(SortedItems(obj.items, 1), 1) \o << <<"}">> >>

\* dict.get(key, default) on a dict value.
DictGet(d, key, default) ==
    LET found == SelectSeq(d.items, LAMBDA it : it[1] = key)
    IN  IF found = <<>> THEN default ELSE found[1][2]

DictKeys(d) == {d.items[i][1] : i \in DOMAIN d.items}

\* graph_builder._load_spec: the list of node dicts of a document; the layout
\* of the text is not part of what yaml.safe_load returns.
load_spec(written) == written.nodes

\* descriptor_to_json(resolve_parameters(parameters)) for parameters holding
\* plain values: the same mapping, in the order written.
descriptor_to_json(parameters) == parameters

\* The text of an index.
IndexText == <<"1", "2", "3">>

\* _canonical_node with canon["params"] replaced, as build_canonical_spec
\* builds it: the keys are inserted in this order.
canonical_node_dict(cfg, declaration_index) ==
    PyDict(<< <<"role", PyAtom("processor")>>,
              <<"processor_ref", DictGet(cfg, "processor", PyAtom("null"))>>,
              <<"params", descriptor_to_json(DictGet(cfg, "parameters", PyDict(<<>>)))>>,
              <<"ports", PyDict(<<>>)>>,
              <<"derive", PyAtom("null")>>,
              <<"declaration_index", PyAtom(IndexText[declaration_index])>>,
              <<"declaration_subindex", PyAtom("0")>> >>)

\* graph_builder.build_graph: the canonical GraphV1 mapping of a node list.
\* node_uuid is the uuid5 of the node's serialized canonical mapping.
build_graph(spec) ==
    LET canon(i) == canonical_node_dict(spec[i], i)
        node_uuid(i) == PyUuid(uuid5(json_dumps(canon(i))))
        nodes == [i \in DOMAIN spec |->
                     PyDict(canon(i).items \o << <<"node_uuid", node_uuid(i)>> >>)]
    IN  PyDict(<< <<"version", PyAtom("1")>>,
                  <<"nodes", PyList(nodes)>>,
                  <<"edges", PyList([i \in 1..(Len(spec) - 1) |->
                       PyDict(<< <<"source", node_uuid(i)>>,
                                 <<"target", node_uuid(i + 1)>> >>)])>> >>)

\* compute_pipeline_id on the serialized text: "plid-" + sha256(spec_json), the
\* hash taken to be free of collisions.
compute_pipeline_id_of_json(spec_json) == [plid |-> spec_json]

(***************************************************************************)
(* Canonicalization specification: a written document is canonicalized,    *)
(* then a document that differs from it in key order and layout only.      *)
(***************************************************************************)
MaxCanonNodes == 2

MaxCanonCalls == 2

ParamKeys == {"alpha", "beta"}

\* The parameter values written, as JSON text, per key.
ParamTexts == [k \in ParamKeys |-> IF k = "alpha" THEN {"1"} ELSE {"1", "2"}]

Layouts == {"block", "flow"}

\* The `parameters` mappings as written: no, one or two keys, in either order.
WrittenParameters ==
    {PyDict(<<>>)}
    \cup UNION {{PyDict(<< <<k, PyAtom(v)>> >>) : v \in ParamTexts[k]} : k \in ParamKeys}
    \cup UNION {UNION {{PyDict(<< <<k1, PyAtom(v1)>>, <<k2, PyAtom(v2)>> >>) :
                           v1 \in ParamTexts[k1], v2 \in ParamTexts[k2]} :
                        k2 \in ParamKeys \ {k1}} :
                 k1 \in ParamKeys}

\* The node mappings as written: `processor` alone, or `processor` and
\* `parameters` in either order.
WrittenNodes ==
    {PyDict(<< <<"processor", PyAtom(p)>> >>) : p \in {"Source", "Add"}}
    \cup {PyDict(<< <<"processor", PyAtom(p)>>, <<"parameters", ps>> >>) :
             p \in {"Source", "Add"}, ps \in WrittenParameters}
    \cup {PyDict(<< <<"parameters", ps>>, <<"processor", PyAtom(p)>> >>) :
             p \in {"Source", "Add"}, ps \in WrittenParameters}

WrittenDocs ==
    [layout : Layouts, nodes : UNION {[1..n -> WrittenNodes] : n \in 1..MaxCanonNodes}]

\* Two written nodes are the same mapping: the same keys, the same processor,
\* and parameters with the same items.
SameMapping(a, b) ==
    /\ DictKeys(a) = DictKeys(b)
    /\ DictGet(a, "processor", PyAtom("null")) = DictGet(b, "processor", PyAtom("null"))
    /\ LET pa == DictGet(a, "parameters", PyDict(<<>>))
           pb == DictGet(b, "parameters", PyDict(<<>>))
       IN  {pa.items[i] : i \in DOMAIN pa.items} = {pb.items[i] : i \in DOMAIN pb.items}

\* The node lists whose first k nodes are, position by position, the same
\* mappings as the first k nodes of `nodes`.
RECURSIVE VariantLists(_, _)
VariantLists(nodes, k) ==
    IF k = 0
    THEN {<<>>}
    ELSE {Append(ns, b) : ns \in VariantLists(nodes, k - 1),
                          b \in {c \in WrittenNodes : SameMapping(c, nodes[k])}}

\* The documents that differ from `written` in key order and layout at most.
CosmeticVariants(written) ==
    [layout : Layouts, nodes : VariantLists(written.nodes, Len(written.nodes))]

CanonInit ==
    /\ canon_calls = <<>>
    /\ RegistryIdle
    /\ TraceIdle
    /\ ResolverIdle
    /\ DeriveIdle
    /\ ExecIdle

\* One canonicalization: build_graph, its serialization and its pipeline_id.
CanonicalizeCall ==
    /\ Len(canon_calls) < MaxCanonCalls
    /\ \E w \in (IF canon_calls = <<>> THEN WrittenDocs
                 ELSE CosmeticVariants(canon_calls[1].written)) :
         LET spec_json == json_dumps(build_graph(load_spec(w)))
         IN  canon_calls' = Append(canon_calls,
                 [written |-> w, canonical_json |-> spec_json,
                  pipeline_id |-> compute_pipeline_id_of_json(spec_json)])
    /\ UNCHANGED <<resolverVars, deriveVars, execVars, registryVars, traceVars>>

CanonNext == CanonicalizeCall

SpecCanon == CanonInit /\ [][CanonNext]_vars

(***************************************************************************)
(* C21: cosmetic differences do not reach the canonical JSON.              *)
(***************************************************************************)
\* Two documents differ only in key order and layout.
CosmeticallyEqual(w1, w2) ==
    /\ Len(w1.nodes) = Len(w2.nodes)
    /\ \A i \in DOMAIN w1.nodes : SameMapping(w1.nodes[i], w2.nodes[i])

\* C21: any two canonicalized documents that differ only in the order of
\* their mapping keys and in their layout have the same canonical JSON text,
\* token for token, and the same pipeline_id.
C21_CosmeticVariantsSameBytes ==
    \A i, j \in DOMAIN canon_calls :
        CosmeticallyEqual(canon_calls[i].written, canon_calls[j].written) =>
            /\ canon_calls[i].canonical_json = canon_calls[j].canonical_json
            /\ canon_calls[i].pipeline_id = canon_calls[j].pipeline_id

\* C21 witness: two documents were canonicalized whose second node has its
\* keys and its parameters written in opposite orders, in different layouts.
C21_Witness ==
    /\ Len(canon_calls) = 2
    /\ canon_calls[1].written.layout # canon_calls[2].written.layout
    /\ Len(canon_calls[1].written.nodes) = 2
    /\ canon_calls[1].written.nodes[2].items[1][1] = "processor"
    /\ canon_calls[2].written.nodes[2].items[1][1] = "parameters"
    /\ Len(DictGet(canon_calls[1].written.nodes[2], "parameters", PyDict(<<>>)).items) = 2
    /\ DictGet(canon_calls[1].written.nodes[2], "parameters", PyDict(<<>>)).items[1]
         = DictGet(canon_calls[2].written.nodes[2], "parameters", PyDict(<<>>)).items[2]
    /\ canon_calls[1].canonical_json = canon_calls[2].canonical_json

(***************************************************************************)
(* Shape specification: compile_eir_v1 on authoring specs whose bind,      *)
(* publish, data_key and context_key are well formed or malformed.         *)
(***************************************************************************)
MaxShapeNodes == 2

\* `bind` as written: a mapping, a value that is not a mapping, or a mapping
\* whose source is empty or not a string.
ShapeBinds ==
    {[p \in {"data"} |-> "channel:primary"], NotAMapping,
     [p \in {"data"} |-> ""], [p \in {"data"} |-> NotAString]}

\* `publish` as written: its channels mapping, or a value that is not a mapping.
ShapePublishes == {[sl \in {"out"} |-> "addend"], NotAMapping}

ShapeDataKeys == {"addend", ""}

ShapeContextKeys == {"k", ""}

\* A declaration with the optional keys that were written.
WithShapeKeys(base, bind, publish, data_key, context_key) ==
    LET d == WithOptionalKeys(base, bind, publish, data_key)
    IN  IF context_key = <<>> THEN d ELSE Put(d, "context_key", context_key[1])

ShapeDecls(pr) ==
    {WithShapeKeys([processor |-> pr, parameters |-> EmptyMap], b, pb, dk, ck) :
        b \in {<<>>} \cup {<<x>> : x \in ShapeBinds},
        pb \in {<<>>} \cup {<<x>> : x \in ShapePublishes},
        dk \in {<<>>} \cup {<<x>> : x \in ShapeDataKeys},
        ck \in {<<>>} \cup {<<x>> : x \in ShapeContextKeys}}

\* A source followed by operations.
ShapeSpecs ==
    UNION {{spec \in [1..n -> ShapeDecls("Source") \cup ShapeDecls("Add")] :
               \A i \in 1..n : spec[i].processor = (IF i = 1 THEN "Source" ELSE "Add")} :
           n \in 1..MaxShapeNodes}

\* One compile_eir_v1 call on a spec of ShapeSpecs.
ShapeCompileCall ==
    /\ compilations = <<>>
    /\ \E spec \in ShapeSpecs, source_kind \in SourceKinds :
         compilations' = Append(compilations,
             [spec |-> spec, created_at |-> 1,
              canonical_graph |-> build_canonical_spec(spec),
              cpsv1 |-> IF canonicalize_raises(spec)
                        THEN None ELSE canonicalize_nodes_to_cpsv1(spec),
              eir |-> compile_eir_v1(spec, 1, source_kind)])
    /\ UNCHANGED <<authored, eir, run_channels, run_context, context_producer_store,
                   provenance, xidx, in_channels, xout>>
    /\ UNCHANGED <<resolverVars, deriveVars, auxVars>>

ShapeNext == ShapeCompileCall

SpecShapes == CompileInit /\ [][ShapeNext]_vars

(***************************************************************************)
(* C26: malformed bind/publish shapes and compilation.                     *)
(***************************************************************************)
\* The declaration has a malformed bind/publish shape: a bind or publish that
\* is not a mapping, a bind source that is empty or not a string, an empty
\* data_key or an empty context_key.
MalformedShape(d) ==
    \/ "bind" \in DOMAIN d /\ ~IsMapping(d.bind)
    \/ "bind" \in DOMAIN d /\ IsMapping(d.bind)
           /\ \E p \in DOMAIN d.bind : d.bind[p] \in {"", NotAString}
    \/ "publish" \in DOMAIN d /\ ~IsMapping(d.publish)
    \/ "data_key" \in DOMAIN d /\ d.data_key = ""
    \/ "context_key" \in DOMAIN d /\ d.context_key = ""

\* C26: for every spec with a malformed bind/publish shape in some node,
\* compile_eir_v1 fails with the canonicalization error, raised before any
\* edge is derived, and returns no IR document.
C26_MalformedShapeFailsCompilation ==
    \A k \in DOMAIN compilations :
        (\E i \in DOMAIN compilations[k].spec : MalformedShape(compilations[k].spec[i])) =>
            /\ ~Returned(compilations[k])
            /\ compilations[k].eir = CanonicalizationRequired

(***************************************************************************)
(* ProcessorRegistry and resolve_symbol.  A class is identified by its     *)
(* fully-qualified name, f"{__module__}.{__qualname__}".                   *)
(***************************************************************************)
\* The modules that can be imported, and the classes they define.
ModuleClasses ==
    [m \in {"pkg.a", "pkg.b"} |-> IF m = "pkg.a" THEN {"P", "Q"} ELSE {"P"}]

\* f"{module}.{qualname}" of a class of ModuleClasses.
Fqcn(module, name) ==
    CASE module = "pkg.a" /\ name = "P" -> "pkg.a.P"
      [] module = "pkg.a" /\ name = "Q" -> "pkg.a.Q"
      [] module = "pkg.b" /\ name = "P" -> "pkg.b.P"

\* The classes that register_processor is called with.
RegistrableClasses == {"pkg.a.P", "pkg.b.P", "pkg.a.Q"}

\* The names that register_processor is called with.
RegistrableNames == {"P", "Q"}

\* The eligible classes of the default modules, by attribute name, as
\* register_modules stores them.
DefaultModuleClasses == [n \in {"Q"} |-> "semantiva.d.Q"]

\* The symbols resolved: short names, module:Class references and dotted
\* references; `text` is the symbol string.
Symbols ==
    {[form |-> "short", text |-> n, module |-> "", name |-> n] : n \in {"P", "Q", "R"}}
    \cup {[form |-> "colon", text |-> "pkg.a:P", module |-> "pkg.a", name |-> "P"],
          [form |-> "colon", text |-> "pkg.a:R", module |-> "pkg.a", name |-> "R"],
          [form |-> "colon", text |-> "pkg.x:P", module |-> "pkg.x", name |-> "P"]}
    \cup {[form |-> "dotted", text |-> "pkg.b.P", module |-> "pkg.b", name |-> "P"],
          [form |-> "dotted", text |-> "pkg.x.P", module |-> "pkg.x", name |-> "P"]}

\* The registry as one value.
Registry(procs, cands, loaded, calls) ==
    [processors |-> procs, name_candidates |-> cands, defaults_loaded |-> loaded,
     registered |-> calls]

\* ProcessorRegistry.register_processor.
register_processor(reg, name, proc_cls) ==
    LET cands == Get(reg.name_candidates, name, {}) \cup {proc_cls}
    IN  [reg EXCEPT !.name_candidates = Put(@, name, cands),
                    !.processors = IF Cardinality(cands) = 1
                                   THEN Put(@, name, proc_cls)
                                   ELSE IF name \in DOMAIN @ THEN @
                                   ELSE Put(@, name, proc_cls),
                    !.registered = @ \cup {<<name, proc_cls>>}]

\* ProcessorRegistry.ensure_default_modules and register_modules: on the first
\* call every eligible class of the default modules is stored under its
\* attribute name; _name_candidates is not touched.
ensure_default_modules(reg) ==
    IF ~reg.defaults_loaded \/ reg.processors = EmptyMap
    THEN [reg EXCEPT !.processors =
                         [n \in DOMAIN @ \cup DOMAIN DefaultModuleClasses |->
                             IF n \in DOMAIN DefaultModuleClasses /\ ~reg.defaults_loaded
                             THEN DefaultModuleClasses[n] ELSE @[n]],
                     !.defaults_loaded = TRUE]
    ELSE reg

\* The outcomes of resolve_symbol.
ResolvedClass(symbol, proc_cls) == [kind |-> "class", cls |-> proc_cls]

ResolveRaised(symbol, error, candidates) ==
    [kind |-> "error", error |-> error, candidates |-> candidates]

\* ProcessorRegistry.get_candidates: the sorted list of the candidates of a
\* name, which is determined by their set.
get_candidates(reg, name) == Get(reg.name_candidates, name, {})

\* resolve_symbol for a string without a name-resolver prefix: the registry
\* after the call and the outcome.
resolve_symbol(reg0, symbol) ==
    LET reg == ensure_default_modules(reg0)
        cands == Get(reg.name_candidates, symbol.text, {})
    IN  IF Cardinality(cands) > 1
        THEN [reg |-> reg,
              out |-> ResolveRaised(symbol, "AmbiguousProcessorError",
                                    get_candidates(reg, symbol.text))]
        ELSE IF symbol.text \in DOMAIN reg.processors
        THEN [reg |-> reg, out |-> ResolvedClass(symbol, reg.processors[symbol.text])]
        ELSE IF symbol.form = "colon"
        THEN IF symbol.module \notin DOMAIN ModuleClasses
             THEN [reg |-> reg, out |-> ResolveRaised(symbol, "ModuleNotFoundError", {})]
             ELSE IF symbol.name \notin ModuleClasses[symbol.module]
             THEN [reg |-> reg, out |-> ResolveRaised(symbol, "AttributeError", {})]
             ELSE LET candidate == Fqcn(symbol.module, symbol.name)
                  IN  [reg |-> register_processor(reg, symbol.name, candidate),
                       out |-> ResolvedClass(symbol, candidate)]
        ELSE IF /\ symbol.form = "dotted"
                /\ symbol.module \in DOMAIN ModuleClasses
                /\ symbol.name \in ModuleClasses[symbol.module]
        THEN LET imported == Fqcn(symbol.module, symbol.name)
             IN  [reg |-> register_processor(reg, symbol.text, imported),
                  out |-> ResolvedClass(symbol, imported)]
        ELSE [reg |-> reg, out |-> ResolveRaised(symbol, "UnknownProcessorError", {})]

(***************************************************************************)
(* Registry specification: register_processor and resolve_symbol calls in  *)
(* any order on one process-wide registry.                                 *)
(***************************************************************************)
CurrentRegistry == Registry(processors, name_candidates, defaults_loaded, registered)

SetRegistry(reg) ==
    /\ processors' = reg.processors
    /\ name_candidates' = reg.name_candidates
    /\ defaults_loaded' = reg.defaults_loaded
    /\ registered' = reg.registered

RegistryInit ==
    /\ RegistryIdle
    /\ CanonIdle
    /\ TraceIdle
    /\ ResolverIdle
    /\ DeriveIdle
    /\ ExecIdle

\* A caller registers a class under a name.
RegisterProcessor ==
    /\ \E name \in RegistrableNames, proc_cls \in RegistrableClasses :
           SetRegistry(register_processor(CurrentRegistry, name, proc_cls))
    /\ UNCHANGED resolved
    /\ UNCHANGED <<resolverVars, deriveVars, execVars, canonVars, traceVars>>

\* A caller resolves a symbol; the call is recorded with its outcome and with
\* the register_processor calls made up to its return.
ResolveSymbol ==
    /\ \E symbol \in Symbols :
           LET r == resolve_symbol(CurrentRegistry, symbol)
           IN  /\ SetRegistry(r.reg)
               /\ resolved' = [kind |-> "done", symbol |-> symbol, outcome |-> r.out,
                               registered |-> registered]
    /\ UNCHANGED <<resolverVars, deriveVars, execVars, canonVars, traceVars>>

RegistryNext == RegisterProcessor \/ ResolveSymbol

SpecRegistry == RegistryInit /\ [][RegistryNext]_vars

(***************************************************************************)
(* C25: ambiguous, unique and unknown processor names.                     *)
(***************************************************************************)
\* The classes registered under a name by the register_processor calls made
\* before the last resolve_symbol call.
RegisteredUnder(name) == {pair[2] : pair \in {q \in resolved.registered : q[1] = name}}

\* No class can be found for the symbol: a short name that nothing was
\* registered under and that no default module defines, or a reference to a
\* module or class that does not exist.
Unresolvable(symbol) ==
    /\ RegisteredUnder(symbol.text) = {}
    /\ symbol.text \notin DOMAIN DefaultModuleClasses
    /\ symbol.form \in {"colon", "dotted"} =>
           \/ symbol.module \notin DOMAIN ModuleClasses
           \/ symbol.name \notin ModuleClasses[symbol.module]

\* C25: after any calls of register_processor, resolving a short name raises
\* AmbiguousProcessorError, naming every registered candidate, exactly when two
\* or more distinct classes were registered under the name; it returns the
\* registered class when exactly one was; and resolving an unresolvable symbol
\* raises UnknownProcessorError.
C25_AmbiguousUniqueUnknown ==
    resolved.kind = "done" =>
        /\ resolved.symbol.form = "short" =>
              LET classes == RegisteredUnder(resolved.symbol.text)
              IN  /\ (resolved.outcome.kind = "error"
                          /\ resolved.outcome.error = "AmbiguousProcessorError")
                         <=> Cardinality(classes) >= 2
                  /\ Cardinality(classes) >= 2 => resolved.outcome.candidates = classes
                  /\ Cardinality(classes) = 1 =>
                         resolved.outcome.kind = "class" /\ resolved.outcome.cls \in classes
        /\ Unresolvable(resolved.symbol) =>
              resolved.outcome.kind = "error"
                  /\ resolved.outcome.error = "UnknownProcessorError"

(***************************************************************************)
(* SemantivaOrchestrator.execute and the trace driver.                     *)
(***************************************************************************)
MaxTraceNodes == 2

\* What a node of the run does: whether instantiate_from_descriptor and
\* _pipeline_node_factory build it, what its process() call does, and whether
\* the transport accepts the published output.
ProcessOutcomes == {"payload", "not_a_payload", "raises"}

TraceNodes == [instantiates : BOOLEAN, process : ProcessOutcomes, publishes : BOOLEAN]

\* The trace argument: None, a driver whose on_pipeline_start accepts
\* pipeline_input, or one with the older signature.
TraceDrivers == {"none", "with_pipeline_input", "without_pipeline_input"}

TracePlans ==
    UNION {[1..n -> TraceNodes] : n \in 1..MaxTraceNodes}

TraceRecord(event, node, status) == [event |-> event, node |-> node, status |-> status]

\* trace.on_pipeline_start, tried with pipeline_input and retried without it
\* on TypeError: the driver receives one call that it accepts.
on_pipeline_start(records, driver) ==
    IF driver = "none"
    THEN records
    ELSE Append(records, TraceRecord("pipeline_start", 0, ""))

on_node_event(records, driver, node, status) ==
    IF driver = "none"
    THEN records
    ELSE Append(records, TraceRecord("node", node, status))

on_pipeline_end(records, driver, status) ==
    IF driver = "none"
    THEN records
    ELSE Append(records, TraceRecord("pipeline_end", 0, status))

\* The finally block: flush and close the driver.
Finished(kind) == [kind |-> kind, closed |-> tplan.trace # "none"]

\* An exception that leaves execute before the try statement is entered.
Escaped == [kind |-> "raised", closed |-> FALSE]

TraceInit ==
    /\ trace_records = <<>>
    /\ \E nodes \in TracePlans, driver \in TraceDrivers :
           tplan = [kind |-> "run", nodes |-> nodes, trace |-> driver]
    /\ tpc = "start"
    /\ tidx = 0
    /\ tresult = [kind |-> "running", closed |-> FALSE]
    /\ CanonIdle
    /\ RegistryIdle
    /\ ResolverIdle
    /\ DeriveIdle
    /\ ExecIdle

\* Lines 129-140: the pipeline_start call.
PipelineStart ==
    /\ tpc = "start"
    /\ trace_records' = on_pipeline_start(trace_records, tplan.trace)
    /\ tpc' = "instantiate"
    /\ UNCHANGED <<tplan, tidx, tresult>>
    /\ UNCHANGED <<resolverVars, deriveVars, execVars, canonVars, registryVars>>

\* Line 142: _instantiate_nodes, before the try statement.
InstantiateNodes ==
    /\ tpc = "instantiate"
    /\ IF \A i \in DOMAIN tplan.nodes : tplan.nodes[i].instantiates
       THEN /\ tpc' = "loop"
            /\ UNCHANGED tresult
       ELSE /\ tpc' = "done"
            /\ tresult' = Escaped
    /\ UNCHANGED <<trace_records, tplan, tidx>>
    /\ UNCHANGED <<resolverVars, deriveVars, execVars, canonVars, registryVars>>

\* Lines 164-314: one iteration of the node loop, with the except and finally
\* clauses of the enclosing try statement when the iteration raises.
ExecuteNode ==
    /\ tpc = "loop"
    /\ tidx < Len(tplan.nodes)
    /\ LET index == tidx + 1
           node == tplan.nodes[index]
       IN  /\ tidx' = index
           /\ IF node.process # "payload"
              THEN /\ trace_records' =
                          on_pipeline_end(on_node_event(trace_records, tplan.trace, index, "error"),
                                          tplan.trace, "error")
                   /\ tpc' = "done"
                   /\ tresult' = Finished("raised")
              ELSE IF ~node.publishes
              THEN /\ trace_records' =
                          on_pipeline_end(on_node_event(trace_records, tplan.trace, index, "completed"),
                                          tplan.trace, "error")
                   /\ tpc' = "done"
                   /\ tresult' = Finished("raised")
              ELSE /\ trace_records' = on_node_event(trace_records, tplan.trace, index, "completed")
                   /\ UNCHANGED <<tpc, tresult>>
    /\ UNCHANGED tplan
    /\ UNCHANGED <<resolverVars, deriveVars, execVars, canonVars, registryVars>>

\* Lines 316-330: the loop is over; pipeline_end, the finally block, return.
PipelineEnd ==
    /\ tpc = "loop"
    /\ tidx = Len(tplan.nodes)
    /\ trace_records' = on_pipeline_end(trace_records, tplan.trace, "ok")
    /\ tpc' = "done"
    /\ tresult' = Finished("returned")
    /\ UNCHANGED <<tplan, tidx>>
    /\ UNCHANGED <<resolverVars, deriveVars, execVars, canonVars, registryVars>>

TraceNext == PipelineStart \/ InstantiateNodes \/ ExecuteNode \/ PipelineEnd

SpecTrace == TraceInit /\ [][TraceNext]_vars

(***************************************************************************)
(* C24: the order of the records of a traced run.                          *)
(***************************************************************************)
TracedRunOver == tpc = "done" /\ tplan.trace # "none"

\* The nodes whose process() was called.
ExecutedNodes == 1..tidx

NodeFailed(i) == tplan.nodes[i].process # "payload"

\* C24: the driver of a traced run receives exactly one pipeline_start, first;
\* then one node record per executed node, in plan order; then exactly one
\* pipeline_end, last.  pipeline_end has status 'ok' when every node succeeded;
\* when a node failed, that node's record is an error record, pipeline_end has
\* status 'error', and no later node has a record.
C24_TraceRecordOrder ==
    TracedRunOver =>
        LET n == Len(trace_records)
        IN  /\ n = tidx + 2
            /\ trace_records[1].event = "pipeline_start"
            /\ trace_records[n].event = "pipeline_end"
            /\ \A i \in ExecutedNodes :
                   /\ trace_records[i + 1].event = "node"
                   /\ trace_records[i + 1].node = i
                   /\ trace_records[i + 1].status = IF NodeFailed(i) THEN "error" ELSE "completed"
            /\ (\A i \in DOMAIN tplan.nodes : ~NodeFailed(i)) => trace_records[n].status = "ok"
            /\ \A i \in ExecutedNodes :
                   NodeFailed(i) => i = tidx /\ trace_records[n].status = "error"

====
